---- MODULE Spec2Model ----
(***************************************************************************)
(* TempLog: sectors with temperature / humidity bounds, the public record  *)
(* page on which collaborators submit readings, and the administrator's    *)
(* dashboard (sector form, cascade delete).  The document store is shared  *)
(* by every page; each await of the source is one step of the model.       *)
(***************************************************************************)
EXTENDS Integers, Sequences, FiniteSets, TLC

\* ------------------------------------------------------------------ bounds
NumPages == 2            \* record page instances (browser tabs)
MaxSectors == 2          \* sector documents ever created (ids 1..MaxSectors)
MaxRecords == 2          \* reading submissions ever started
MaxDay == 1              \* the clock runs over the days 0..MaxDay
MaxSectorWrites == 2     \* sector form submissions ever sent to the store
MaxHistory == 4          \* readings stored before the history page opens
MaxCsv == 2              \* readings the records dialog holds at an export

Pages == 1..NumPages
SectorIds == 1..MaxSectors

\* ------------------------------------------------------------------- time
\* Timestamps are local epoch milliseconds.
DayMs == 24 * 60 * 60 * 1000
\* The instants of a day at which the clock is observed: noon,
\* 23:59:59.000 and 23:59:59.500.
Instants == {12 * 60 * 60 * 1000, DayMs - 1000, DayMs - 500}
Times == {d * DayMs + i : d \in 0..MaxDay, i \in Instants}

\* new Date(y, m, d, 0, 0, 0) / today.setHours(0, 0, 0, 0)
StartOfDay(t) == (t \div DayMs) * DayMs
\* onSubmit: new Date(y, m, d, 23, 59, 59), milliseconds default to 0
SubmitEndOfDay(t) == StartOfDay(t) + (23 * 3600 + 59 * 60 + 59) * 1000
\* fetchSectorAndRecords, dashboard, dialog: setHours(23, 59, 59, 999)
EndOfDay(t) == StartOfDay(t) + (23 * 3600 + 59 * 60 + 59) * 1000 + 999

HourMs == 60 * 60 * 1000

\* The proleptic Gregorian calendar: the date <<y, m, d>> of the day z
\* counted from 1970-01-01, and back.
CivilFromDays(z) ==
    LET zz == z + 719468
        era == zz \div 146097
        doe == zz - era * 146097
        yoe == (doe - doe \div 1460 + doe \div 36524 - doe \div 146096)
                  \div 365
        doy == doe - (365 * yoe + yoe \div 4 - yoe \div 100)
        mp == (5 * doy + 2) \div 153
        d == doy - (153 * mp + 2) \div 5 + 1
        m == IF mp < 10 THEN mp + 3 ELSE mp - 9
    IN <<yoe + era * 400 + (IF m <= 2 THEN 1 ELSE 0), m, d>>

DaysFromCivil(c) ==
    LET y == c[1] - (IF c[2] <= 2 THEN 1 ELSE 0)
        era == y \div 400
        yoe == y - era * 400
        doy == (153 * (IF c[2] > 2 THEN c[2] - 3 ELSE c[2] + 9) + 2) \div 5
                  + c[3] - 1
        doe == yoe * 365 + yoe \div 4 - yoe \div 100 + doy
    IN era * 146097 + doe - 719468

\* The local date on which the timestamps start: instant 0 is 00:00:00.000
\* of that day.
EpochDay == DaysFromCivil(<<2023, 12, 20>>)

\* format(date, 'yyyy-MM-dd') of a local instant: the key <<y, m, d>>.
FormatYmd(t) == CivilFromDays(EpochDay + t \div DayMs)

\* new Date('yyyy-MM-dd'): a date-only string is read as midnight UTC; the
\* local instant is that of a browser whose UTC offset is z hours.
DateFromYmd(key, z) == (DaysFromCivil(key) - EpochDay) * DayMs + z * HourMs

\* format(date, 'dd/MM') of a local instant: the label <<dd, MM>>.
FormatDdMm(t) ==
    LET c == CivilFromDays(EpochDay + t \div DayMs) IN <<c[3], c[2]>>

\* a.localeCompare(b) < 0 ... > 0 of two 'dd/MM' strings: the digits of
\* the day of the month come first.
LocaleCompare(a, b) ==
    IF a[1] # b[1] THEN a[1] - b[1] ELSE a[2] - b[2]

\* ------------------------------------------------------------ form values
\* A text field of a form is <<>> when empty and <<n>> when it holds the
\* number n.  Number('') is 0, which is what z.coerce.number() applies.
Number(f) == IF f = <<>> THEN 0 ELSE f[1]

Turnos == {"Manha", "Tarde", "Noite"}
NoTurno == "undefined"

\* formSchema of the record page: temperature and humidity are coerced
\* with Number() before the number checks, turno must be one of the enum.
FormSchemaErrors(f) ==
    (IF Number(f.humidity) >= 0 /\ Number(f.humidity) <= 100
     THEN {} ELSE {"humidity"})
    \cup (IF f.turno \in Turnos THEN {} ELSE {"turno"})

FormValid(f) == FormSchemaErrors(f) = {}

\* The observation is a string, the sequence of its characters.
EmptyForm ==
    [temperature |-> <<>>, humidity |-> <<>>, turno |-> NoTurno,
     observation |-> <<>>]

\* The temperature comparison with an open interval.
IsTempOutOfRangeOpen(s, v) ==
    /\ s # <<>>
    /\ v # <<>>
    /\ (Number(v) <= s[1].temp_min \/ Number(v) >= s[1].temp_max)

\* isTempOutOfRange / isHumidityOutOfRange of the render: s is the page's
\* sector state (<<>> when null), v the watched field.
IsTempOutOfRange(s, v) ==
    /\ s # <<>>
    /\ v # <<>>
    /\ (Number(v) < s[1].temp_min \/ Number(v) > s[1].temp_max)

IsHumidityOutOfRange(s, v) ==
    /\ s # <<>>
    /\ v # <<>>
    /\ (Number(v) < s[1].humidity_min \/ Number(v) > s[1].humidity_max)

\* sectorSchema of the dashboard form.  location and responsible_name are
\* validated exactly like name and are carried by it.
SectorValues(f) ==
    [name |-> f.name,
     temp_min |-> Number(f.temp_min), temp_max |-> Number(f.temp_max),
     humidity_min |-> Number(f.humidity_min),
     humidity_max |-> Number(f.humidity_max)]

\* sectorSchema without its two refinements.
SectorSchemaErrorsNoRefine(f) ==
    (IF f.name = "" THEN {"name"} ELSE {})
    \cup (IF Number(f.humidity_min) < 0 \/ Number(f.humidity_min) > 100
          THEN {"humidity_min"} ELSE {})
    \cup (IF Number(f.humidity_max) < 0 \/ Number(f.humidity_max) > 100
          THEN {"humidity_max"} ELSE {})

\* The paths of the issues sectorSchema reports: the field checks, then
\* the two refinements (the field checks do not abort the parse).
When(cond, path) == IF cond THEN {path} ELSE {}

SectorSchemaErrors(f) ==
    LET v == SectorValues(f) IN
    When(v.name = "", "name")
    \cup When(v.humidity_min < 0 \/ v.humidity_min > 100, "humidity_min")
    \cup When(v.humidity_max < 0 \/ v.humidity_max > 100, "humidity_max")
    \cup When(~(v.temp_max > v.temp_min), "temp_max")
    \cup When(~(v.humidity_max > v.humidity_min), "humidity_max")

SectorSchemaValid(f) == SectorSchemaErrors(f) = {}

\* ------------------------------------------------------------------ state
VARIABLES
    now,             \* wall clock (server and local clocks agree)
    sectorDocs,      \* store: collection 'sectors', a set of documents
    records,         \* store: collection 'records', a set of documents
    nextSectorId,    \* ids handed out by addDoc
    nextRecordId,
    started,         \* reading submissions started so far
    \* --- RecordPage, one per page instance
    pc,              \* "closed" | "loading" | "idle" | "query" | "write"
    sectorId,        \* route parameter
    sector,          \* useState<Sector | null>: <<>> or <<doc>>
    loading,
    isSubmitting,
    form,            \* the fields of the reading form
    formErrors,      \* formState.errors: the fields with an issue
    window,          \* onSubmit's startOfDay / endOfDay
    toast,           \* last notification of the page
    submitToasts,    \* toast() calls of onSubmit since it was last started
    \* --- DashboardPage
    sectors,         \* useState<Sector[]>: the last snapshot delivered
    isFormOpen,
    editingSector,   \* <<>> or <<id>>
    dashSubmitting,  \* isSubmitting of the dashboard
    dashOp,          \* the pending updateDoc / addDoc of onSubmit
    dashErrors,      \* formState.errors of the sector form
    dashToast,
    dashToasts,      \* toast() calls of onSubmit since it was last started
    sectorWrites,    \* sector form submissions sent so far
    delPc,           \* deleteSector: "idle" | "query" | "records" | "sector"
    delTarget,
    delFound,        \* record ids of recordsSnapshot.docs
    delAwait,        \* record ids Promise.all still waits for
    delInFlight,     \* deleteDoc requests the store has not yet answered
    delToast,
    delToasts,       \* toast() calls of deleteSector since it was last started
    \* --- DashboardPage, daily status
    sectorsStatus,   \* useState<SectorStatus>: per sector <<>> (no entry)
                     \* or <<the shifts that are true>>
    recordSubs,      \* the onSnapshot(qRecords) listeners ever registered
    nextSub,         \* listeners registered so far
    \* --- HistoryPage
    tz,              \* UTC offset of the browser, in hours
    selectedSector,  \* <<>> or <<id>>
    period,          \* "week" | "month"
    histStart,       \* startDate of the records query
    histSub,         \* its listener: "none" | "new" | "live" | "dead"
    histRecords,     \* useState<Record[]>
    loadingRecords,
    chartData,       \* useMemo over histRecords
    \* --- ViewRecordsDialog
    dlgRecords,      \* useState<Record[]>
    csvInput,        \* dlgRecords as it was when exportToCsv was last called
    csvContent,      \* the text of the last export, a sequence of characters
    dlgOpen,         \* isRecordsDialogOpen
    dlgSector,       \* sectorForRecords: <<>> or <<id>>
    dlgDate,         \* useState<Date | undefined>: <<>> or <<day>>
    dlgLoading,
    dlgSub,          \* the dialog's listener: <<>> or <<[sector, day, state]>>
    \* --- RecordPage, daily table
    dailyRecords,    \* useState<Record[]>
    dailySub,        \* the page's listener: <<>> or
                     \* <<[sector, start, end, state]>>
    \* --- session
    user,            \* useAuth().user is not null
    sectorsSub       \* the dashboard's sectors listener: "live" | "released"

storeVars == <<sectorDocs, records, nextSectorId, nextRecordId>>
pageVars == <<pc, sectorId, sector, loading, isSubmitting, form, formErrors,
              window, toast, submitToasts, started>>
formVars == <<sectors, isFormOpen, editingSector, dashSubmitting, dashOp,
              dashErrors, dashToast, dashToasts, sectorWrites>>
delVars == <<delPc, delTarget, delFound, delAwait, delInFlight, delToast,
            delToasts>>
statusVars == <<sectorsStatus, recordSubs, nextSub>>
histVars == <<tz, selectedSector, period, histStart, histSub, histRecords,
              loadingRecords, chartData>>
dlgVars == <<dlgRecords, csvInput, csvContent, dlgOpen, dlgSector, dlgDate,
             dlgLoading, dlgSub>>
dailyVars == <<dailyRecords, dailySub>>
authVars == <<user, sectorsSub>>
viewVars == <<statusVars, histVars, dlgVars, dailyVars, authVars>>
vars == <<now, storeVars, pageVars, formVars, delVars, viewVars>>

NoWindow == [start |-> 0, end |-> 0]

\* ------------------------------------------------------------------ clock
Tick ==
    /\ \E t \in Times :
        /\ t > now
        /\ \A u \in Times : u > now => t <= u
        /\ now' = t
    /\ UNCHANGED <<storeVars, pageVars, formVars, delVars, viewVars>>

\* ------------------------------------------------------------ record page
\* The page is opened on /record/<sid>; fetchSectorAndRecords starts.
OpenPage(p, sid) ==
    /\ pc[p] = "closed"
    /\ pc' = [pc EXCEPT ![p] = "loading"]
    /\ sectorId' = [sectorId EXCEPT ![p] = sid]
    /\ loading' = [loading EXCEPT ![p] = TRUE]
    /\ UNCHANGED <<now, viewVars, storeVars, sector, isSubmitting, form, formErrors,
                   window, toast, submitToasts, started, formVars, delVars>>

\* getDoc(sectorRef) is answered: the sector is kept as read, once, and
\* the listener on its readings of the current day is registered.
LoadPage(p, ok) ==
    /\ pc[p] = "loading"
    /\ LET found == {d \in sectorDocs : d.id = sectorId[p]} IN
        /\ sector' = [sector EXCEPT ![p] =
              IF ok /\ found # {} THEN <<CHOOSE d \in found : TRUE>> ELSE <<>>]
        /\ toast' = [toast EXCEPT ![p] =
              IF ~ok THEN "Falha ao buscar detalhes do setor"
              ELSE IF found = {} THEN "Setor nao encontrado" ELSE @]
        /\ dailySub' = [dailySub EXCEPT ![p] =
              IF ok /\ found # {}
              THEN <<[sector |-> sectorId[p], start |-> StartOfDay(now),
                      end |-> EndOfDay(now), state |-> "new"]>>
              ELSE @]
    /\ loading' = [loading EXCEPT ![p] = FALSE]
    /\ pc' = [pc EXCEPT ![p] = "idle"]
    /\ UNCHANGED <<now, statusVars, histVars, dlgVars, authVars, dailyRecords,
                   storeVars, sectorId, isSubmitting, form, formErrors,
                   window, submitToasts, started, formVars, delVars>>

\* A page that offers the form whether or not it holds a sector.
FormShownWithoutSector(p) == pc[p] = "idle" /\ ~loading[p]

\* The form is rendered only when the page is neither loading nor not-found;
\* the submit button is disabled while isSubmitting.
FormShown(p) == pc[p] = "idle" /\ ~loading[p] /\ sector[p] # <<>>

\* The user fills the fields with f and presses the button:
\* form.handleSubmit(onSubmit) validates and, when valid, runs onSubmit up
\* to its first await (getDocs).
HandleSubmit(p, f) ==
    /\ FormShown(p)
    /\ ~isSubmitting[p]
    /\ form' = [form EXCEPT ![p] = f]
    /\ IF FormValid(f)
       THEN /\ started < MaxRecords
            /\ started' = started + 1
            /\ formErrors' = [formErrors EXCEPT ![p] = {}]
            /\ isSubmitting' = [isSubmitting EXCEPT ![p] = TRUE]
            /\ window' = [window EXCEPT ![p] =
                  [start |-> StartOfDay(now), end |-> SubmitEndOfDay(now)]]
            /\ pc' = [pc EXCEPT ![p] = "query"]
            /\ submitToasts' = [submitToasts EXCEPT ![p] = 0]
       ELSE /\ formErrors' = [formErrors EXCEPT ![p] = FormSchemaErrors(f)]
            /\ UNCHANGED <<started, isSubmitting, window, pc, submitToasts>>
    /\ UNCHANGED <<now, viewVars, storeVars, sectorId, sector, loading, toast,
                   formVars, delVars>>

\* The documents the existence query of onSubmit matches.
ExistingFor(p) ==
    {r \in records :
        /\ r.sector_id = sector[p][1].id
        /\ r.turno = form[p].turno
        /\ r.timestamp >= window[p].start
        /\ r.timestamp <= window[p].end}

\* getDocs answered, with the duplicate branch returning without toast().
QueryDoneSilent(p, ok) ==
    /\ pc[p] = "query"
    /\ IF ~ok
       THEN /\ toast' = [toast EXCEPT ![p] = "Falha no Envio"]
            /\ submitToasts' = [submitToasts EXCEPT ![p] = @ + 1]
            /\ isSubmitting' = [isSubmitting EXCEPT ![p] = FALSE]
            /\ pc' = [pc EXCEPT ![p] = "idle"]
       ELSE IF ExistingFor(p) # {}
       THEN /\ isSubmitting' = [isSubmitting EXCEPT ![p] = FALSE]
            /\ pc' = [pc EXCEPT ![p] = "idle"]
            /\ UNCHANGED <<toast, submitToasts>>
       ELSE /\ pc' = [pc EXCEPT ![p] = "write"]
            /\ UNCHANGED <<toast, submitToasts, isSubmitting>>
    /\ UNCHANGED <<now, viewVars, storeVars, sectorId, sector, loading, form,
                   formErrors, window, started, formVars, delVars>>

\* getDocs(q) is answered: duplicate toast, or addDoc is sent.
QueryDone(p, ok) ==
    /\ pc[p] = "query"
    /\ IF ~ok
       THEN /\ toast' = [toast EXCEPT ![p] = "Falha no Envio"]
            /\ isSubmitting' = [isSubmitting EXCEPT ![p] = FALSE]
            /\ pc' = [pc EXCEPT ![p] = "idle"]
       ELSE IF ExistingFor(p) # {}
       THEN /\ toast' = [toast EXCEPT ![p] = "Registro Duplicado"]
            /\ isSubmitting' = [isSubmitting EXCEPT ![p] = FALSE]
            /\ pc' = [pc EXCEPT ![p] = "idle"]
       ELSE /\ pc' = [pc EXCEPT ![p] = "write"]
            /\ UNCHANGED <<toast, isSubmitting>>
    /\ submitToasts' = [submitToasts EXCEPT ![p] =
                           IF ok /\ ExistingFor(p) = {} THEN @ ELSE @ + 1]
    /\ UNCHANGED <<now, viewVars, storeVars, sectorId, sector, loading, form,
                   formErrors, window, started, formVars, delVars>>

\* dataToSave of onSubmit; the timestamp is the server's.
DataToSave(p) ==
    [id |-> nextRecordId,
     sector_id |-> sector[p][1].id,
     turno |-> form[p].turno,
     temperature |-> Number(form[p].temperature),
     humidity |-> Number(form[p].humidity),
     observation |-> form[p].observation,
     timestamp |-> now,
     is_temp_ok |-> ~IsTempOutOfRange(sector[p], form[p].temperature),
     is_humidity_ok |-> ~IsHumidityOutOfRange(sector[p], form[p].humidity)]

\* addDoc as a conditional write: the existence check is repeated with it.
WriteDoneChecked(p, ok) ==
    /\ pc[p] = "write"
    /\ IF ok /\ ExistingFor(p) = {}
       THEN /\ records' = records \cup {DataToSave(p)}
            /\ nextRecordId' = nextRecordId + 1
            /\ toast' = [toast EXCEPT ![p] = "Sucesso"]
            /\ form' = [form EXCEPT ![p] = EmptyForm]
       ELSE /\ toast' = [toast EXCEPT ![p] =
                  IF ok THEN "Registro Duplicado" ELSE "Falha no Envio"]
            /\ UNCHANGED <<records, nextRecordId, form>>
    /\ submitToasts' = [submitToasts EXCEPT ![p] = @ + 1]
    /\ isSubmitting' = [isSubmitting EXCEPT ![p] = FALSE]
    /\ pc' = [pc EXCEPT ![p] = "idle"]
    /\ UNCHANGED <<now, viewVars, sectorDocs, nextSectorId, sectorId, sector, loading,
                   formErrors, window, started, formVars, delVars>>

\* addDoc is answered.
WriteDone(p, ok) ==
    /\ pc[p] = "write"
    /\ IF ok
       THEN /\ records' = records \cup {DataToSave(p)}
            /\ nextRecordId' = nextRecordId + 1
            /\ toast' = [toast EXCEPT ![p] = "Sucesso"]
            /\ form' = [form EXCEPT ![p] = EmptyForm]
       ELSE /\ toast' = [toast EXCEPT ![p] = "Falha no Envio"]
            /\ UNCHANGED <<records, nextRecordId, form>>
    /\ submitToasts' = [submitToasts EXCEPT ![p] = @ + 1]
    /\ isSubmitting' = [isSubmitting EXCEPT ![p] = FALSE]
    /\ pc' = [pc EXCEPT ![p] = "idle"]
    /\ UNCHANGED <<now, viewVars, sectorDocs, nextSectorId, sectorId, sector, loading,
                   formErrors, window, started, formVars, delVars>>

\* -------------------------------------------------------------- dashboard
\* initialStatus of the sectors snapshot handler: an entry with the three
\* shifts false for every sector of the snapshot, none for any other id.
InitialStatus(docs) ==
    [s \in SectorIds |->
        IF \E d \in docs : d.id = s THEN <<{}>> ELSE <<>>]

\* The listeners the handler registers, one per sector of the snapshot, on
\* that sector's readings of the day that contains t.  Each is numbered;
\* seen is the result it has last delivered.
NewRecordSubs(docs, t, first) ==
    {[n |-> first + Cardinality({e \in docs : e.id < d.id}),
      sector |-> d.id,
      start |-> StartOfDay(t), end |-> EndOfDay(t),
      state |-> "new", seen |-> {}] : d \in docs}

\* The sectors subscription delivers the current collection: setSectors,
\* the status is reset, and a records listener is registered per sector.
\* The listeners registered by an earlier delivery are not released (the
\* function the handler returns is ignored by onSnapshot).
SectorsSnapshot ==
    /\ sectorsSub = "live"
    /\ sectors # sectorDocs
    /\ sectors' = sectorDocs
    /\ sectorsStatus' = InitialStatus(sectorDocs)
    /\ recordSubs' = recordSubs \cup NewRecordSubs(sectorDocs, now, nextSub)
    /\ nextSub' = nextSub + Cardinality(sectorDocs)
    /\ UNCHANGED <<now, storeVars, pageVars, isFormOpen, editingSector,
                   dashSubmitting, dashOp, dashErrors, dashToast, dashToasts,
                   sectorWrites, delVars, histVars, dlgVars, dailyVars, authVars>>

\* The documents a records listener's query matches.
SubResult(sub) ==
    {r \in records :
        /\ r.sector_id = sub.sector
        /\ r.timestamp >= sub.start
        /\ r.timestamp <= sub.end}

\* An updater that flips the shifts of the delivered documents instead of
\* resetting the entry and setting them.
ApplyRecordsSnapshotToggle(prev, sid, docs) ==
    [s \in SectorIds |->
        IF prev[s] = <<>> THEN <<>>
        ELSE LET on == {r.turno : r \in {x \in docs : x.sector_id = s}} IN
             <<(prev[s][1] \ on) \cup (on \ prev[s][1])>>]

\* The updater of the records snapshot handler of the listener on sector
\* sid, applied to the status prev with the documents docs: the entry of
\* sid, when there is one, is reset, then every document sets its shift in
\* the entry of its own sector, when there is one.
ApplyRecordsSnapshot(prev, sid, docs) ==
    [s \in SectorIds |->
        IF prev[s] = <<>> THEN <<>>
        ELSE <<(IF s = sid THEN {} ELSE prev[s][1])
                 \cup {r.turno : r \in {x \in docs : x.sector_id = s}}>>]

\* A records listener delivers: its first snapshot, or a new one when the
\* result of its query has changed.
RecordsSnapshot(n) ==
    \E sub \in recordSubs :
        /\ sub.n = n
        /\ sub.state # "dead"
        /\ sub.state = "new" \/ sub.seen # SubResult(sub)
        /\ sectorsStatus' =
              IF user
              THEN ApplyRecordsSnapshot(sectorsStatus, sub.sector,
                                        SubResult(sub))
              ELSE sectorsStatus
        /\ recordSubs' = (recordSubs \ {sub})
              \cup {[sub EXCEPT !.state = "live", !.seen = SubResult(sub)]}
        /\ UNCHANGED <<now, storeVars, pageVars, formVars, delVars, nextSub,
                       histVars, dlgVars, dailyVars, authVars>>

\* A failure of one records listener that stops every records listener.
RecordsErrorStopsAll(n) ==
    \E sub \in recordSubs :
        /\ sub.n = n
        /\ sub.state # "dead"
        /\ recordSubs' = {[x EXCEPT !.state = "dead"] : x \in recordSubs}
        /\ UNCHANGED <<now, storeVars, pageVars, formVars, delVars,
                       sectorsStatus, nextSub, histVars, dlgVars, dailyVars, authVars>>

\* A records listener fails: it delivers nothing more.  It was registered
\* without an error callback, so no state of the page changes.
RecordsError(n) ==
    \E sub \in recordSubs :
        /\ sub.n = n
        /\ sub.state # "dead"
        /\ recordSubs' = (recordSubs \ {sub})
              \cup {[sub EXCEPT !.state = "dead"]}
        /\ UNCHANGED <<now, storeVars, pageVars, formVars, delVars,
                       sectorsStatus, nextSub, histVars, dlgVars, dailyVars, authVars>>

\* A handleFormOpenChange that only sets isFormOpen.
HandleFormOpenChangeOnly(open) ==
    /\ user
    /\ isFormOpen # open
    /\ isFormOpen' = open
    /\ UNCHANGED <<now, viewVars, storeVars, pageVars, sectors, dashSubmitting,
                   dashOp, dashToast, dashToasts, sectorWrites, delVars,
                   editingSector, dashErrors>>

\* handleFormOpenChange(open): the dialog's trigger and its close button.
HandleFormOpenChange(open) ==
    /\ user
    /\ isFormOpen # open
    /\ editingSector' = IF open THEN editingSector ELSE <<>>
    /\ dashErrors' = IF open THEN dashErrors ELSE {}
    /\ isFormOpen' = open
    /\ UNCHANGED <<now, viewVars, storeVars, pageVars, sectors, dashSubmitting, dashOp,
                   dashToast, dashToasts, sectorWrites, delVars>>

\* handleEditClick(sector) on a row of the sectors table.
HandleEditClick(sid) ==
    /\ user
    /\ ~isFormOpen
    /\ \E d \in sectors : d.id = sid
    /\ editingSector' = <<sid>>
    /\ dashErrors' = {}
    /\ isFormOpen' = TRUE
    /\ UNCHANGED <<now, viewVars, storeVars, pageVars, sectors, dashSubmitting, dashOp,
                   dashToast, dashToasts, sectorWrites, delVars>>

\* form.handleSubmit(onSubmit) of the sector form with the fields f:
\* sectorSchema, then onSubmit up to its await (updateDoc or addDoc).
SubmitSectorForm(f) ==
    /\ user
    /\ isFormOpen
    /\ ~dashSubmitting
    /\ IF SectorSchemaValid(f)
       THEN /\ sectorWrites < MaxSectorWrites
            /\ editingSector = <<>> => nextSectorId <= MaxSectors
            /\ sectorWrites' = sectorWrites + 1
            /\ dashErrors' = {}
            /\ dashSubmitting' = TRUE
            /\ dashToasts' = 0
            /\ dashOp' = <<[kind |-> IF editingSector # <<>> THEN "update"
                                                              ELSE "add",
                            id |-> IF editingSector # <<>>
                                   THEN editingSector[1] ELSE 0,
                            values |-> SectorValues(f)]>>
       ELSE /\ dashErrors' = SectorSchemaErrors(f)
            /\ UNCHANGED <<sectorWrites, dashSubmitting, dashOp, dashToasts>>
    /\ UNCHANGED <<now, viewVars, storeVars, pageVars, sectors, isFormOpen,
                   editingSector, dashToast, delVars>>

\* The document updateDoc / addDoc writes: the form values under an id.
SectorDoc(sid, v) ==
    [id |-> sid, name |-> v.name,
     temp_min |-> v.temp_min, temp_max |-> v.temp_max,
     humidity_min |-> v.humidity_min, humidity_max |-> v.humidity_max]

\* updateDoc that also re-evaluates the flags of the sector's readings.
UpdateDocStoreRecompute(op) ==
    /\ sectorDocs' = {d \in sectorDocs : d.id # op.id}
                        \cup {SectorDoc(op.id, op.values)}
    /\ records' =
         {IF r.sector_id = op.id
          THEN [r EXCEPT
                  !.is_temp_ok = /\ r.temperature >= op.values.temp_min
                                 /\ r.temperature <= op.values.temp_max,
                  !.is_humidity_ok = /\ r.humidity >= op.values.humidity_min
                                     /\ r.humidity <= op.values.humidity_max]
          ELSE r : r \in records}
    /\ UNCHANGED <<nextSectorId, nextRecordId>>

\* The store after updateDoc(sectorRef, values): only that sector document
\* changes.
UpdateDocStore(op) ==
    /\ sectorDocs' = {d \in sectorDocs : d.id # op.id}
                        \cup {SectorDoc(op.id, op.values)}
    /\ UNCHANGED <<records, nextSectorId, nextRecordId>>

\* The store after addDoc(collection 'sectors', values).
AddDocStore(op) ==
    /\ sectorDocs' = sectorDocs \cup {SectorDoc(nextSectorId, op.values)}
    /\ nextSectorId' = nextSectorId + 1
    /\ UNCHANGED <<records, nextRecordId>>

\* updateDoc / addDoc is answered; updateDoc of a missing document fails.
SectorWriteDone(ok) ==
    /\ dashOp # <<>>
    /\ LET op == dashOp[1]
           done == ok /\ (op.kind = "update" =>
                             \E d \in sectorDocs : d.id = op.id)
       IN IF done
          THEN /\ IF op.kind = "update" THEN UpdateDocStore(op)
                                        ELSE AddDocStore(op)
               /\ dashToast' = IF op.kind = "update"
                               THEN "Setor atualizado" ELSE "Setor adicionado"
               /\ editingSector' = <<>>
               /\ dashErrors' = {}
               /\ isFormOpen' = FALSE
          ELSE /\ dashToast' = "Erro"
               /\ UNCHANGED <<storeVars, editingSector, dashErrors,
                              isFormOpen>>
    /\ dashOp' = <<>>
    /\ dashToasts' = dashToasts + 1
    /\ dashSubmitting' = FALSE
    /\ UNCHANGED <<now, viewVars, pageVars, sectors, sectorWrites, delVars>>

\* deleteSector(sectorId) from the confirmation of a row: getDocs is sent.
DeleteSector(sid) ==
    /\ user
    /\ delPc = "idle"
    /\ delInFlight = {}
    /\ \E d \in sectors : d.id = sid
    /\ delPc' = "query"
    /\ delTarget' = sid
    /\ delToasts' = 0
    /\ UNCHANGED <<now, viewVars, storeVars, pageVars, formVars, delFound, delAwait,
                   delInFlight,
                   delToast>>

\* getDocs(recordsQuery) is answered: one deleteDoc per document found, or,
\* with none found, Promise.all([]) resolves and deleteDoc(sector) is sent.
DeleteQueryDone(ok) ==
    /\ delPc = "query"
    /\ LET ids == {r.id : r \in {x \in records : x.sector_id = delTarget}} IN
       IF ~ok
       THEN /\ delPc' = "idle"
            /\ delToast' = "Erro ao deletar setor"
            /\ delToasts' = delToasts + 1
            /\ UNCHANGED <<delFound, delAwait, delInFlight>>
       ELSE /\ delPc' = IF ids = {} THEN "sector" ELSE "records"
            /\ delFound' = ids
            /\ delAwait' = ids
            /\ delInFlight' = ids
            /\ UNCHANGED <<delToast, delToasts>>
    /\ UNCHANGED <<now, viewVars, storeVars, pageVars, formVars, delTarget>>

\* One deleteDoc(record) is answered, the answers being awaited with
\* Promise.allSettled: a failed delete counts as done.
DeleteRecordDoneSettled(rid, ok) ==
    /\ rid \in delInFlight
    /\ delInFlight' = delInFlight \ {rid}
    /\ records' = IF ok THEN {r \in records : r.id # rid} ELSE records
    /\ IF delPc = "records" /\ rid \in delAwait
       THEN /\ delAwait' = delAwait \ {rid}
            /\ delPc' = IF delAwait' = {} THEN "sector" ELSE "records"
            /\ UNCHANGED <<delToast, delToasts>>
       ELSE UNCHANGED <<delAwait, delPc, delToast, delToasts>>
    /\ UNCHANGED <<now, viewVars, sectorDocs, nextSectorId, nextRecordId,
                   pageVars, formVars, delTarget, delFound>>

\* One deleteDoc(record) is answered.  Promise.all rejects on the first
\* failure and resolves with the last success; requests already sent are
\* still carried out after a rejection.
DeleteRecordDone(rid, ok) ==
    /\ rid \in delInFlight
    /\ delInFlight' = delInFlight \ {rid}
    /\ records' = IF ok THEN {r \in records : r.id # rid} ELSE records
    /\ IF delPc = "records" /\ rid \in delAwait
       THEN IF ok
            THEN /\ delAwait' = delAwait \ {rid}
                 /\ delPc' = IF delAwait' = {} THEN "sector" ELSE "records"
                 /\ UNCHANGED <<delToast, delToasts>>
            ELSE /\ delAwait' = {}
                 /\ delPc' = "idle"
                 /\ delToast' = "Erro ao deletar setor"
                 /\ delToasts' = delToasts + 1
       ELSE UNCHANGED <<delAwait, delPc, delToast, delToasts>>
    /\ UNCHANGED <<now, viewVars, sectorDocs, nextSectorId, nextRecordId, pageVars,
                   formVars, delTarget, delFound>>

\* deleteDoc(sector) is answered.
DeleteSectorDone(ok) ==
    /\ delPc = "sector"
    /\ sectorDocs' = IF ok THEN {d \in sectorDocs : d.id # delTarget}
                           ELSE sectorDocs
    /\ delToast' = IF ok THEN "Setor deletado" ELSE "Erro ao deletar setor"
    /\ delToasts' = delToasts + 1
    /\ delPc' = "idle"
    /\ UNCHANGED <<now, viewVars, records, nextSectorId, nextRecordId, pageVars,
                   formVars, delTarget, delFound, delAwait,
                   delInFlight>>

\* ----------------------------------------------------------- history page
RECURSIVE OrderByTimestamp(_)
\* orderBy('timestamp', 'asc') of a query result; documents with equal
\* timestamps come in the order of their ids.
OrderByTimestamp(S) ==
    IF S = {} THEN <<>>
    ELSE LET first == CHOOSE r \in S : \A x \in S :
                          \/ r.timestamp < x.timestamp
                          \/ r.timestamp = x.timestamp /\ r.id <= x.id
         IN <<first>> \o OrderByTimestamp(S \ {first})

Range(q) == {q[i] : i \in 1..Len(q)}

RECURSIVE GroupedByDay(_)
\* The keys of groupedByDay in the order Object.entries lists them: the
\* order in which the days first occur in the records.
GroupedByDay(recs) ==
    IF recs = <<>> THEN <<>>
    ELSE LET keys == GroupedByDay(SubSeq(recs, 1, Len(recs) - 1))
             day == FormatYmd(recs[Len(recs)].timestamp)
         IN IF day \in Range(keys) THEN keys ELSE Append(keys, day)

RECURSIVE Reduce(_)
\* values.reduce((a, b) => a + b, 0)
Reduce(values) ==
    IF values = <<>> THEN 0
    ELSE Reduce(SubSeq(values, 1, Len(values) - 1)) + values[Len(values)]

\* parseFloat((sum / n).toFixed(1)), in tenths: the nearest tenth, the
\* larger in magnitude of two equally near.
ToFixed1(sum, n) ==
    IF sum >= 0 THEN (20 * sum + n) \div (2 * n)
    ELSE 0 - ((20 * (0 - sum) + n) \div (2 * n))

\* The entry chartData builds for the key day.
ChartPoint(day, recs, z) ==
    LET ofDay == SelectSeq(recs, LAMBDA r : FormatYmd(r.timestamp) = day)
        temps == [i \in 1..Len(ofDay) |-> ofDay[i].temperature]
        humids == [i \in 1..Len(ofDay) |-> ofDay[i].humidity]
    IN [date |-> FormatDdMm(DateFromYmd(day, z)),
        Temperatura |-> ToFixed1(Reduce(temps), Len(temps)),
        Umidade |-> ToFixed1(Reduce(humids), Len(humids))]

RECURSIVE SortByDate(_)
\* points.sort((a, b) => a.date.localeCompare(b.date)); the sort is stable.
SortByDate(points) ==
    IF points = <<>> THEN <<>>
    ELSE LET init == SortByDate(SubSeq(points, 1, Len(points) - 1))
             x == points[Len(points)]
             keep == {i \in 1..Len(init) :
                         LocaleCompare(init[i].date, x.date) <= 0}
             k == Cardinality(keep)
         IN SubSeq(init, 1, k) \o <<x>> \o SubSeq(init, k + 1, Len(init))

\* chartData of the history page for the records recs.
ChartData(recs, z) ==
    LET keys == GroupedByDay(recs) IN
    SortByDate([i \in 1..Len(keys) |-> ChartPoint(keys[i], recs, z)])

\* The records effect runs for the sector sid and the period per: the
\* listener of the previous run is released and a new one is registered.
RecordsEffect(sid, per) ==
    /\ selectedSector' = <<sid>>
    /\ period' = per
    /\ loadingRecords' = TRUE
    /\ histStart' = (now \div DayMs - ((IF per = "week" THEN 7 ELSE 30) - 1))
                        * DayMs
    /\ histSub' = "new"
    /\ UNCHANGED <<now, storeVars, pageVars, formVars, delVars, statusVars,
                   dlgVars, dailyVars, authVars,
                   tz, histRecords, chartData>>

\* A sector is selected: the first one when the sectors arrive, or one
\* picked in the select.
SelectSector(sid) ==
    /\ \E d \in sectorDocs : d.id = sid
    /\ selectedSector # <<sid>>
    /\ RecordsEffect(sid, period)

\* The period is switched.
SetPeriod(per) ==
    /\ selectedSector # <<>>
    /\ period # per
    /\ RecordsEffect(selectedSector[1], per)

\* The documents the records query of the history page matches.
HistoryResult ==
    {r \in records :
        r.sector_id = selectedSector[1] /\ r.timestamp >= histStart}

\* The records listener delivers: setRecords, and chartData is recomputed.
HistorySnapshot ==
    /\ histSub \in {"new", "live"}
    /\ histSub = "new" \/ Range(histRecords) # HistoryResult
    /\ histSub' = "live"
    /\ histRecords' = OrderByTimestamp(HistoryResult)
    /\ loadingRecords' = FALSE
    /\ chartData' = ChartData(histRecords', tz)
    /\ UNCHANGED <<now, storeVars, pageVars, formVars, delVars, statusVars,
                   dlgVars, dailyVars, authVars,
                   tz, selectedSector, period, histStart>>

\* The records listener fails: the error is logged, loading ends.
HistoryError ==
    /\ histSub \in {"new", "live"}
    /\ histSub' = "dead"
    /\ loadingRecords' = FALSE
    /\ UNCHANGED <<now, storeVars, pageVars, formVars, delVars, statusVars,
                   dlgVars, dailyVars, authVars,
                   tz, selectedSector, period, histStart, histRecords,
                   chartData>>

\* --------------------------------------------------------- records dialog
\* Text is a sequence of characters; a word that is never split (a shift,
\* true, false, a header title) is written as one character.
Digit(n) == <<"0", "1", "2", "3", "4", "5", "6", "7", "8", "9">>[n + 1]

RECURSIVE NumberToString(_)
\* String(n) of an integer.
NumberToString(n) ==
    IF n < 0 THEN <<"-">> \o NumberToString(0 - n)
    ELSE IF n < 10 THEN <<Digit(n)>>
    ELSE NumberToString(n \div 10) \o <<Digit(n % 10)>>

Pad2(n) == <<Digit((n \div 10) % 10), Digit(n % 10)>>

\* format(date, 'yyyy-MM-dd HH:mm:ss') of a local instant.
FormatDateTime(t) ==
    LET c == CivilFromDays(EpochDay + t \div DayMs)
        ms == t % DayMs
    IN Pad2(c[1] \div 100) \o Pad2(c[1] % 100) \o <<"-">> \o Pad2(c[2])
         \o <<"-">> \o Pad2(c[3]) \o <<" ">> \o Pad2(ms \div HourMs)
         \o <<":">> \o Pad2((ms % HourMs) \div 60000)
         \o <<":">> \o Pad2((ms % 60000) \div 1000)

RECURSIVE Join(_, _)
\* fields.join(sep)
Join(fields, sep) ==
    IF fields = <<>> THEN <<>>
    ELSE IF Len(fields) = 1 THEN fields[1]
    ELSE Join(SubSeq(fields, 1, Len(fields) - 1), sep) \o <<sep>>
            \o fields[Len(fields)]

RECURSIVE DoubleQuotes(_)
\* observation.replace(/"/g, '""')
DoubleQuotes(text) ==
    IF text = <<>> THEN <<>>
    ELSE (IF Head(text) = "\"" THEN <<"\"", "\"">> ELSE <<Head(text)>>)
            \o DoubleQuotes(Tail(text))

\* The observation between double quotes, its own quotes left as they are.
QuotedPlain(text) == <<"\"">> \o text \o <<"\"">>

\* `"${r.observation.replace(/"/g, '""')}"`
Quoted(text) == <<"\"">> \o DoubleQuotes(text) \o <<"\"">>

BooleanToString(b) == IF b THEN <<"true">> ELSE <<"false">>

\* The row of one record: its seven fields joined with commas.
CsvRow(r) ==
    Join(<<FormatDateTime(r.timestamp),
           <<r.turno>>,
           NumberToString(r.temperature),
           BooleanToString(r.is_temp_ok),
           NumberToString(r.humidity),
           BooleanToString(r.is_humidity_ok),
           Quoted(r.observation)>>, ",")

CsvHeaders ==
    <<<<"Horario">>, <<"Turno">>, <<"Temperatura (C)">>, <<"Temp OK">>,
      <<"Umidade (%)">>, <<"Umidade OK">>, <<"Observacoes">>>>

\* The array as it is held, not sorted.
KeepOrder(recs) == recs

RECURSIVE SortByTimestamp(_)
\* records.sort((a, b) => a.timestamp.toDate().getTime()
\*                        - b.timestamp.toDate().getTime()): stable, in place.
SortByTimestamp(recs) ==
    IF recs = <<>> THEN <<>>
    ELSE LET init == SortByTimestamp(SubSeq(recs, 1, Len(recs) - 1))
             x == recs[Len(recs)]
             k == Cardinality({i \in 1..Len(init) :
                                  init[i].timestamp - x.timestamp <= 0})
         IN SubSeq(init, 1, k) \o <<x>> \o SubSeq(init, k + 1, Len(init))

\* csvContent of exportToCsv for the array recs.
CsvContent(recs) ==
    LET sorted == SortByTimestamp(recs)
        rows == [i \in 1..Len(sorted) |-> CsvRow(sorted[i])]
    IN <<"data:text/csv;charset=utf-8,">>
          \o Join(<<Join(CsvHeaders, ",")>> \o rows, "\n")

\* exportToCsv, from the button that is enabled while records are held:
\* the array is sorted in place and the text is handed to the download.
ExportToCsv ==
    /\ dlgOpen
    /\ dlgRecords # <<>>
    /\ csvInput' = dlgRecords
    /\ dlgRecords' = SortByTimestamp(dlgRecords)
    /\ csvContent' = CsvContent(dlgRecords)
    /\ UNCHANGED <<now, storeVars, pageVars, formVars, delVars, statusVars,
                   histVars, dailyVars, authVars, dlgOpen, dlgSector, dlgDate,
                   dlgLoading, dlgSub>>

\* ------------------------------------------------- daily table, dialog
\* The documents the daily records query of the page p matches.
DailyResult(p) ==
    {r \in records :
        /\ r.sector_id = dailySub[p][1].sector
        /\ r.timestamp >= dailySub[p][1].start
        /\ r.timestamp <= dailySub[p][1].end}

\* A daily table filled by one read when the page loads: only the first
\* result is delivered.
DailySnapshotOnce(p) ==
    /\ pc[p] # "left"
    /\ dailySub[p] # <<>>
    /\ dailySub[p][1].state = "new"
    /\ dailyRecords' =
          [dailyRecords EXCEPT ![p] = OrderByTimestamp(DailyResult(p))]
    /\ dailySub' = [dailySub EXCEPT ![p] = <<[@[1] EXCEPT !.state = "live"]>>]
    /\ UNCHANGED <<now, storeVars, pageVars, formVars, delVars, statusVars,
                   histVars, dlgVars, authVars>>

\* The page's listener delivers: setDailyRecords.  A delivery to a page
\* that was left sets no state.
DailySnapshot(p) ==
    /\ pc[p] # "left"
    /\ dailySub[p] # <<>>
    /\ dailySub[p][1].state # "dead"
    /\ \/ dailySub[p][1].state = "new"
       \/ Range(dailyRecords[p]) # DailyResult(p)
    /\ dailyRecords' =
          [dailyRecords EXCEPT ![p] = OrderByTimestamp(DailyResult(p))]
    /\ dailySub' = [dailySub EXCEPT ![p] = <<[@[1] EXCEPT !.state = "live"]>>]
    /\ UNCHANGED <<now, storeVars, pageVars, formVars, delVars, statusVars,
                   histVars, dlgVars, authVars>>

\* The page's listener fails: it was registered without an error callback,
\* so it only stops delivering.
DailyError(p) ==
    /\ dailySub[p] # <<>>
    /\ dailySub[p][1].state # "dead"
    /\ dailySub' = [dailySub EXCEPT ![p] = <<[@[1] EXCEPT !.state = "dead"]>>]
    /\ UNCHANGED <<now, storeVars, pageVars, formVars, delVars, statusVars,
                   histVars, dlgVars, authVars, dailyRecords>>

\* The user navigates away from the record page: the component unmounts.
\* The effect returns no cleanup, so the listener is not released.
LeavePage(p) ==
    /\ pc[p] = "idle"
    /\ pc' = [pc EXCEPT ![p] = "left"]
    /\ UNCHANGED <<now, storeVars, sectorId, sector, loading, isSubmitting,
                   form, formErrors, window, toast, submitToasts, started,
                   formVars, delVars, viewVars>>

\* The effect of ViewRecordsDialog on [sector.id, date, isOpen], after the
\* cleanup of the previous run has released its listener: with the dialog
\* closed or no date the records are emptied; otherwise loading is set and
\* a listener on the sector's readings of the day is registered, the
\* records held so far being kept.
DialogEffect(open, sec, date) ==
    IF ~open \/ date = <<>>
    THEN /\ dlgRecords' = <<>>
         /\ dlgLoading' = (date = <<>>)
         /\ dlgSub' = <<>>
    ELSE /\ dlgLoading' = TRUE
         /\ dlgSub' = <<[sector |-> sec[1], day |-> date[1],
                         state |-> "new"]>>
         /\ UNCHANGED dlgRecords

\* handleViewRecords(sector) on a row of the sectors table.  The dialog is
\* mounted by the first call, with the current date.
HandleViewRecords(sid) ==
    /\ user
    /\ ~dlgOpen
    /\ \E d \in sectors : d.id = sid
    /\ dlgSector' = <<sid>>
    /\ dlgOpen' = TRUE
    /\ dlgDate' = IF dlgSector = <<>> THEN <<now \div DayMs>> ELSE dlgDate
    /\ DialogEffect(TRUE, dlgSector', dlgDate')
    /\ UNCHANGED <<now, storeVars, pageVars, formVars, delVars, statusVars,
                   histVars, dailyVars, authVars, csvInput, csvContent>>

\* setIsOpen(false): the dialog is closed.
CloseRecordsDialog ==
    /\ dlgOpen
    /\ dlgOpen' = FALSE
    /\ DialogEffect(FALSE, dlgSector, dlgDate)
    /\ UNCHANGED <<now, storeVars, pageVars, formVars, delVars, statusVars,
                   histVars, dailyVars, authVars, csvInput, csvContent,
                   dlgSector, dlgDate>>

\* setDate from the calendar: another day, or none when the selected day
\* is clicked again.
SetDate(date) ==
    /\ dlgOpen
    /\ date # dlgDate
    /\ dlgDate' = date
    /\ DialogEffect(TRUE, dlgSector, date)
    /\ UNCHANGED <<now, storeVars, pageVars, formVars, delVars, statusVars,
                   histVars, dailyVars, authVars, csvInput, csvContent,
                   dlgOpen, dlgSector>>

\* The documents the dialog's records query matches.
DialogResult ==
    {r \in records :
        /\ r.sector_id = dlgSub[1].sector
        /\ r.timestamp >= StartOfDay(dlgSub[1].day * DayMs)
        /\ r.timestamp <= EndOfDay(dlgSub[1].day * DayMs)}

\* The dialog's listener delivers: setRecords, setLoading(false).
DialogSnapshot ==
    /\ dlgSub # <<>>
    /\ dlgSub[1].state \in {"new", "live"}
    /\ dlgSub[1].state = "new" \/ Range(dlgRecords) # DialogResult
    /\ dlgRecords' = OrderByTimestamp(DialogResult)
    /\ dlgLoading' = FALSE
    /\ dlgSub' = <<[dlgSub[1] EXCEPT !.state = "live"]>>
    /\ UNCHANGED <<now, storeVars, pageVars, formVars, delVars, statusVars,
                   histVars, dailyVars, authVars, csvInput, csvContent,
                   dlgOpen, dlgSector, dlgDate>>

\* The dialog's listener fails: the error is logged, loading ends.
DialogError ==
    /\ dlgSub # <<>>
    /\ dlgSub[1].state \in {"new", "live"}
    /\ dlgLoading' = FALSE
    /\ dlgSub' = <<[dlgSub[1] EXCEPT !.state = "dead"]>>
    /\ UNCHANGED <<now, storeVars, pageVars, formVars, delVars, statusVars,
                   histVars, dailyVars, authVars, csvInput, csvContent,
                   dlgOpen, dlgSector, dlgDate, dlgRecords>>

\* handleSignOut with no write of the dashboard pending: signOut(auth)
\* makes user null, DashboardLayout stops rendering the page, and the page
\* and its dialog unmount.  Their state is gone and the cleanups of their
\* effects run: the sectors listener and the dialog's listener are
\* released, and so is the listener of the history page.  The per-sector
\* records listeners are in no cleanup.
SignOut ==
    /\ user
    /\ dashOp = <<>>
    /\ delPc = "idle"
    /\ delInFlight = {}
    /\ user' = FALSE
    /\ sectorsSub' = "released"
    /\ sectors' = {}
    /\ sectorsStatus' = InitialStatus({})
    /\ isFormOpen' = FALSE
    /\ editingSector' = <<>>
    /\ dashErrors' = {}
    /\ dlgOpen' = FALSE
    /\ dlgSector' = <<>>
    /\ dlgDate' = <<>>
    /\ dlgRecords' = <<>>
    /\ dlgLoading' = TRUE
    /\ dlgSub' = <<>>
    /\ histSub' = "none"
    /\ UNCHANGED <<now, storeVars, pageVars, delVars, dailyVars,
                   dashSubmitting, dashOp, dashToast, dashToasts,
                   sectorWrites, recordSubs, nextSub, csvInput, csvContent,
                   tz, selectedSector, period, histStart, histRecords,
                   loadingRecords, chartData>>

\* --------------------------------------------------------- specifications
\* defaultFormValues of the sector form, stored under the first id.
DefaultSector ==
    SectorDoc(1, [name |-> "A", temp_min |-> 18, temp_max |-> 25,
                  humidity_min |-> 40, humidity_max |-> 60])

\* The state at the instant t, in a browser of UTC offset z, once the
\* administrator has created the sectors docs through the form, the
\* readings recs were stored, and the dashboard has just been opened.
InitState(docs, recs, t, z) ==
    /\ now = t
    /\ sectorDocs = docs
    /\ records = recs
    /\ nextSectorId = Cardinality(docs) + 1
    /\ nextRecordId = Cardinality(recs) + 1
    /\ started = 0
    /\ pc = [p \in Pages |-> "closed"]
    /\ sectorId = [p \in Pages |-> 0]
    /\ sector = [p \in Pages |-> <<>>]
    /\ loading = [p \in Pages |-> TRUE]
    /\ isSubmitting = [p \in Pages |-> FALSE]
    /\ form = [p \in Pages |-> EmptyForm]
    /\ formErrors = [p \in Pages |-> {}]
    /\ window = [p \in Pages |-> NoWindow]
    /\ toast = [p \in Pages |-> "none"]
    /\ submitToasts = [p \in Pages |-> 0]
    /\ sectors = docs
    /\ isFormOpen = FALSE
    /\ editingSector = <<>>
    /\ dashSubmitting = FALSE
    /\ dashOp = <<>>
    /\ dashErrors = {}
    /\ dashToast = IF docs = {} THEN "none" ELSE "Setor adicionado"
    /\ dashToasts = IF docs = {} THEN 0 ELSE 1
    /\ sectorWrites = Cardinality(docs)
    /\ delPc = "idle"
    /\ delTarget = 0
    /\ delFound = {}
    /\ delAwait = {}
    /\ delInFlight = {}
    /\ delToast = "none"
    /\ delToasts = 0
    /\ sectorsStatus = InitialStatus(docs)
    /\ recordSubs = NewRecordSubs(docs, t, 1)
    /\ nextSub = Cardinality(docs) + 1
    /\ tz = z
    /\ selectedSector = <<>>
    /\ period = "week"
    /\ histStart = 0
    /\ histSub = "none"
    /\ histRecords = <<>>
    /\ loadingRecords = FALSE
    /\ chartData = <<>>
    /\ csvInput = <<>>
    /\ csvContent = <<>>
    /\ dailyRecords = [p \in Pages |-> <<>>]
    /\ dailySub = [p \in Pages |-> <<>>]
    /\ user = TRUE
    /\ sectorsSub = "live"

\* The records dialog has not been opened.
DialogClosed ==
    /\ dlgRecords = <<>>
    /\ dlgOpen = FALSE
    /\ dlgSector = <<>>
    /\ dlgDate = <<>>
    /\ dlgLoading = TRUE
    /\ dlgSub = <<>>

\* The records dialog is open on the sector sid and the day of the instant
\* t, its listener has delivered, and it holds the array q.
DialogHolds(sid, t, q) ==
    /\ dlgRecords = q
    /\ dlgOpen = TRUE
    /\ dlgSector = <<sid>>
    /\ dlgDate = <<t \div DayMs>>
    /\ dlgLoading = FALSE
    /\ dlgSub = <<[sector |-> sid, day |-> t \div DayMs, state |-> "live"]>>

\* The same with no reading stored yet, at noon of the first day, in a
\* browser three hours behind UTC.
InitWith(docs) == InitState(docs, {}, 12 * HourMs, 0 - 3) /\ DialogClosed

Init == InitWith({})

\* Fields typed into the reading form.
ReadingInputs ==
    [temperature : {<<>>, <<18>>, <<26>>},
     humidity : {<<>>, <<40>>, <<60>>, <<101>>},
     turno : {NoTurno, "Manha", "Tarde"}, observation : {<<>>}]

\* Fields typed into the sector form.
SectorInputs ==
    [name : {"", "A"},
     temp_min : {<<>>, <<18>>, <<20>>}, temp_max : {<<18>>, <<25>>},
     humidity_min : {<<40>>}, humidity_max : {<<40>>, <<60>>, <<101>>}]

\* The whole system.
Next ==
    \/ Tick
    \/ \E p \in Pages, sid \in SectorIds : OpenPage(p, sid)
    \/ \E p \in Pages, ok \in BOOLEAN : LoadPage(p, ok)
    \/ \E p \in Pages, f \in ReadingInputs : HandleSubmit(p, f)
    \/ \E p \in Pages, ok \in BOOLEAN : QueryDone(p, ok)
    \/ \E p \in Pages, ok \in BOOLEAN : WriteDone(p, ok)
    \/ SectorsSnapshot
    \/ \E open \in BOOLEAN : HandleFormOpenChange(open)
    \/ \E sid \in SectorIds : HandleEditClick(sid)
    \/ \E f \in SectorInputs : SubmitSectorForm(f)
    \/ \E ok \in BOOLEAN : SectorWriteDone(ok)
    \/ \E sid \in SectorIds : DeleteSector(sid)
    \/ \E ok \in BOOLEAN : DeleteQueryDone(ok)
    \/ \E rid \in 1..MaxRecords, ok \in BOOLEAN : DeleteRecordDone(rid, ok)
    \/ \E ok \in BOOLEAN : DeleteSectorDone(ok)
    \/ \E n \in 1..(nextSub - 1) : RecordsSnapshot(n)
    \/ \E n \in 1..(nextSub - 1) : RecordsError(n)
    \/ \E sid \in SectorIds : SelectSector(sid)
    \/ \E per \in {"week", "month"} : SetPeriod(per)
    \/ HistorySnapshot
    \/ HistoryError
    \/ \E p \in Pages : DailySnapshot(p)
    \/ \E p \in Pages : DailyError(p)
    \/ \E p \in Pages : LeavePage(p)
    \/ \E sid \in SectorIds : HandleViewRecords(sid)
    \/ CloseRecordsDialog
    \/ \E date \in {<<>>} \cup {<<d>> : d \in 0..MaxDay} : SetDate(date)
    \/ DialogSnapshot
    \/ DialogError
    \/ ExportToCsv
    \/ SignOut

Spec == Init /\ [][Next]_vars

\* Concurrent submissions: the record pages of one sector, readings that
\* differ in their shift only, and the clock.
RaceInputs ==
    [temperature : {<<20>>}, humidity : {<<50>>}, turno : {"Manha", "Tarde"},
     observation : {<<>>}]

NextRace ==
    \/ Tick
    \/ \E p \in Pages : OpenPage(p, 1)
    \/ \E p \in Pages, ok \in BOOLEAN : LoadPage(p, ok)
    \/ \E p \in Pages, f \in RaceInputs : HandleSubmit(p, f)
    \/ \E p \in Pages, ok \in BOOLEAN : QueryDone(p, ok)
    \/ \E p \in Pages, ok \in BOOLEAN : WriteDone(p, ok)

SpecRace == InitWith({DefaultSector}) /\ [][NextRace]_vars

\* The same within one day: the clock stands still.
NextRaceDay ==
    \/ \E p \in Pages : OpenPage(p, 1)
    \/ \E p \in Pages, ok \in BOOLEAN : LoadPage(p, ok)
    \/ \E p \in Pages, f \in RaceInputs : HandleSubmit(p, f)
    \/ \E p \in Pages, ok \in BOOLEAN : QueryDone(p, ok)
    \/ \E p \in Pages, ok \in BOOLEAN : WriteDone(p, ok)

SpecRaceDay == InitWith({DefaultSector}) /\ [][NextRaceDay]_vars

\* Flags and validation: one record page on a sector created through the
\* sector form, every field value of ReadingInputs.
FlagSectors ==
    {SectorDoc(1, SectorValues(f)) :
        f \in {g \in SectorInputs : SectorSchemaValid(g)}}

NextFlags ==
    \/ OpenPage(1, 1)
    \/ \E ok \in BOOLEAN : LoadPage(1, ok)
    \/ \E f \in ReadingInputs : HandleSubmit(1, f)
    \/ \E ok \in BOOLEAN : QueryDone(1, ok)
    \/ \E ok \in BOOLEAN : WriteDone(1, ok)

SpecFlags == (\E d \in FlagSectors : InitWith({d})) /\ [][NextFlags]_vars

\* Cascade delete against submissions from the record pages of the sector.
NextDelete ==
    \/ \E p \in Pages : OpenPage(p, 1)
    \/ \E p \in Pages, ok \in BOOLEAN : LoadPage(p, ok)
    \/ \E p \in Pages, f \in RaceInputs : HandleSubmit(p, f)
    \/ \E p \in Pages, ok \in BOOLEAN : QueryDone(p, ok)
    \/ \E p \in Pages, ok \in BOOLEAN : WriteDone(p, ok)
    \/ SectorsSnapshot
    \/ \E sid \in SectorIds : DeleteSector(sid)
    \/ \E ok \in BOOLEAN : DeleteQueryDone(ok)
    \/ \E rid \in 1..MaxRecords, ok \in BOOLEAN : DeleteRecordDone(rid, ok)
    \/ \E ok \in BOOLEAN : DeleteSectorDone(ok)

SpecDelete == InitWith({DefaultSector}) /\ [][NextDelete]_vars

\* Edits of an existing sector against one record page of it.
EditInputs ==
    [temperature : {<<18>>}, humidity : {<<50>>}, turno : {"Manha"},
     observation : {<<>>}]

EditSectorInputs ==
    [name : {"A", "B"},
     temp_min : {<<18>>, <<20>>}, temp_max : {<<18>>, <<25>>},
     humidity_min : {<<40>>}, humidity_max : {<<60>>}]

NextEdit ==
    \/ OpenPage(1, 1)
    \/ \E ok \in BOOLEAN : LoadPage(1, ok)
    \/ \E f \in EditInputs : HandleSubmit(1, f)
    \/ \E ok \in BOOLEAN : QueryDone(1, ok)
    \/ \E ok \in BOOLEAN : WriteDone(1, ok)
    \/ SectorsSnapshot
    \/ HandleFormOpenChange(FALSE)
    \/ \E sid \in SectorIds : HandleEditClick(sid)
    \/ \E f \in EditSectorInputs : SubmitSectorForm(f)
    \/ \E ok \in BOOLEAN : SectorWriteDone(ok)

SpecEdit == InitWith({DefaultSector}) /\ [][NextEdit]_vars

\* The sector form alone: sectors are created and edited from an empty
\* store with every field value of SectorInputs.
NextForm ==
    \/ SectorsSnapshot
    \/ \E open \in BOOLEAN : HandleFormOpenChange(open)
    \/ \E sid \in SectorIds : HandleEditClick(sid)
    \/ \E f \in SectorInputs : SubmitSectorForm(f)
    \/ \E ok \in BOOLEAN : SectorWriteDone(ok)

SpecForm == Init /\ [][NextForm]_vars

\* The daily status of two sectors, each with its record page, and the
\* clock.
SecondSector ==
    SectorDoc(2, [name |-> "B", temp_min |-> 18, temp_max |-> 25,
                  humidity_min |-> 40, humidity_max |-> 60])

StatusInputs ==
    [temperature : {<<20>>}, humidity : {<<50>>}, turno : {"Manha", "Tarde"},
     observation : {<<>>}]

NextStatus ==
    \/ Tick
    \/ \E p \in {1, 2} : OpenPage(p, p)
    \/ \E p \in {1, 2} : LoadPage(p, TRUE)
    \/ \E p \in {1, 2}, f \in StatusInputs : HandleSubmit(p, f)
    \/ \E p \in {1, 2} : QueryDone(p, TRUE)
    \/ \E p \in {1, 2} : WriteDone(p, TRUE)
    \/ \E n \in 1..(nextSub - 1) : RecordsSnapshot(n)
    \/ \E n \in 1..(nextSub - 1) : RecordsError(n)

SpecStatus == InitWith({DefaultSector, SecondSector}) /\ [][NextStatus]_vars

\* The same within one day: the clock stands still.
NextDay ==
    \/ \E p \in {1, 2} : OpenPage(p, p)
    \/ \E p \in {1, 2} : LoadPage(p, TRUE)
    \/ \E p \in {1, 2}, f \in StatusInputs : HandleSubmit(p, f)
    \/ \E p \in {1, 2} : QueryDone(p, TRUE)
    \/ \E p \in {1, 2} : WriteDone(p, TRUE)
    \/ \E n \in 1..(nextSub - 1) : RecordsSnapshot(n)
    \/ \E n \in 1..(nextSub - 1) : RecordsError(n)

SpecDay == InitWith({DefaultSector, SecondSector}) /\ [][NextDay]_vars

\* The history page over readings of the default sector stored on 26 and
\* 31 December and on 1 January, opened at noon of 2 January.
HistoryToday == DaysFromCivil(<<2024, 1, 2>>) - EpochDay

HistorySlots ==
    ({HistoryToday - 7} \X {"Manha"})
        \cup ({HistoryToday - 2, HistoryToday - 1} \X Turnos)

HistoryValues ==
    {[temperature |-> 18, humidity |-> 41],
     [temperature |-> 20, humidity |-> 50],
     [temperature |-> 22, humidity |-> 55],
     [temperature |-> 24, humidity |-> 60]}

TimeZones == {0 - 3, 0}

\* The hour at which the reading of a shift is taken.
ShiftHour(turno) ==
    IF turno = "Manha" THEN 8 ELSE IF turno = "Tarde" THEN 14 ELSE 22

\* The reading the record page stores for the slot <<day, shift>> with the
\* values v; ids follow the order of the submissions.
StoredReading(slot, v, slots) ==
    [id |-> 1 + Cardinality({x \in slots :
                \/ x[1] < slot[1]
                \/ x[1] = slot[1] /\ ShiftHour(x[2]) < ShiftHour(slot[2])}),
     sector_id |-> 1,
     turno |-> slot[2],
     temperature |-> v.temperature,
     humidity |-> v.humidity,
     observation |-> <<>>,
     timestamp |-> slot[1] * DayMs + ShiftHour(slot[2]) * HourMs,
     is_temp_ok |-> ~IsTempOutOfRange(<<DefaultSector>>, <<v.temperature>>),
     is_humidity_ok |->
         ~IsHumidityOutOfRange(<<DefaultSector>>, <<v.humidity>>)]

\* The readings stored when the slots are filled with the values f.
HistoryStore(slots, f) ==
    {StoredReading(slot, f[slot], slots) : slot \in slots}

NextHistory ==
    \/ \E sid \in SectorIds : SelectSector(sid)
    \/ \E per \in {"week", "month"} : SetPeriod(per)
    \/ HistorySnapshot
    \/ HistoryError

InitHistory ==
    \E slots \in SUBSET HistorySlots :
        /\ Cardinality(slots) <= MaxHistory
        /\ \E f \in [slots -> HistoryValues] : \E z \in TimeZones :
              /\ InitState({DefaultSector}, HistoryStore(slots, f),
                           HistoryToday * DayMs + 12 * HourMs, z)
              /\ DialogClosed

SpecHistory == InitHistory /\ [][NextHistory]_vars

\* CSV export over the arrays the records dialog may hold: readings of the
\* default sector taken on the first day, in any order.
CsvTimes == {8 * HourMs, 14 * HourMs}

\* What is read at each of the two times.
CsvValueAt(t) ==
    IF t = 8 * HourMs THEN [temperature |-> 22, humidity |-> 55]
    ELSE [temperature |-> 30, humidity |-> 40]

CsvObservations ==
    {<<>>, <<"h", "\"", "i", "\"">>, <<"\"">>, <<",", "\n">>}

CsvShifts == <<"Manha", "Tarde", "Noite">>

\* The reading number i the record page stored at t with the observation o.
CsvReading(i, t, o) ==
    LET v == CsvValueAt(t) IN
    [id |-> i,
     sector_id |-> 1,
     turno |-> CsvShifts[((i - 1) % 3) + 1],
     temperature |-> v.temperature,
     humidity |-> v.humidity,
     observation |-> o,
     timestamp |-> t,
     is_temp_ok |-> ~IsTempOutOfRange(<<DefaultSector>>, <<v.temperature>>),
     is_humidity_ok |->
         ~IsHumidityOutOfRange(<<DefaultSector>>, <<v.humidity>>)]

\* The readings an array of n readings is made of.
CsvReadings(n) ==
    {CsvReading(i, t, o) : i \in 1..n, t \in CsvTimes, o \in CsvObservations}

NextCsv ==
    \/ ExportToCsv

InitCsv ==
    \E n \in 1..MaxCsv : \E q \in [1..n -> CsvReadings(n)] :
        /\ \A i, j \in 1..n : i # j => q[i].id # q[j].id
        /\ InitState({DefaultSector}, Range(q), 14 * HourMs, 0 - 3)
        /\ DialogHolds(1, 14 * HourMs, q)

SpecCsv == InitCsv /\ [][NextCsv]_vars

\* Record pages opened on any sector id, before and after the sector is
\* deleted.
NextOpen ==
    \/ \E p \in {1, 2}, sid \in SectorIds : OpenPage(p, sid)
    \/ \E p \in {1, 2}, ok \in BOOLEAN : LoadPage(p, ok)
    \/ \E p \in {1, 2}, f \in EditInputs : HandleSubmit(p, f)
    \/ \E p \in {1, 2}, ok \in BOOLEAN : QueryDone(p, ok)
    \/ \E p \in {1, 2}, ok \in BOOLEAN : WriteDone(p, ok)
    \/ SectorsSnapshot
    \/ \E sid \in SectorIds : DeleteSector(sid)
    \/ DeleteQueryDone(TRUE)
    \/ \E rid \in 1..MaxRecords : DeleteRecordDone(rid, TRUE)
    \/ DeleteSectorDone(TRUE)

SpecOpen == InitWith({DefaultSector}) /\ [][NextOpen]_vars

\* ----------------------------------------------------------- C1, C2, C3
\* The readings stored for the sector and shift of p's submission on the
\* local calendar day of that submission.
SameDayReadings(p) ==
    {r \in records :
        /\ r.sector_id = sector[p][1].id
        /\ r.turno = form[p].turno
        /\ StartOfDay(r.timestamp) = window[p].start}

\* C1: a submission whose existence query is answered while the store
\* already holds a reading of the same sector, shift and local calendar day
\* (the earlier write has completed) is rejected, it never goes on to its
\* write, and the store is left as it was, so that reading stays the only
\* one.
C1_SequentialDuplicateRejected ==
    [][\A p \in Pages :
         (pc[p] = "query" /\ pc'[p] # "query" /\ SameDayReadings(p) # {})
            => /\ pc'[p] = "idle"
               /\ toast'[p] \in {"Registro Duplicado", "Falha no Envio"}
               /\ records' = records]_vars

\* C2: the insert of a submission that has passed its existence check is
\* unconditional: when addDoc is answered the reading is stored (or the
\* store reports a failure), whatever has been stored since the check.
C2_WriteIsUnconditional ==
    [][\A p \in Pages :
         (pc[p] = "write" /\ pc'[p] # "write")
            => \/ /\ toast'[p] = "Sucesso"
                  /\ Cardinality(records') = Cardinality(records) + 1
               \/ /\ toast'[p] = "Falha no Envio"
                  /\ records' = records]_vars

\* C2 witness: two readings of one sector, shift and day, both inside the
\* window the existence query covers, are stored.
C2_TwoReadingsOneShift ==
    \E r1, r2 \in records :
        /\ r1.id # r2.id
        /\ r1.sector_id = r2.sector_id
        /\ r1.turno = r2.turno
        /\ StartOfDay(r1.timestamp) = StartOfDay(r2.timestamp)
        /\ r1.timestamp <= SubmitEndOfDay(r1.timestamp)
        /\ r2.timestamp <= SubmitEndOfDay(r2.timestamp)

\* C3: a submission passes its existence check only when no reading of the
\* same sector and shift has a timestamp in 00:00:00.000-23:59:59.999 of
\* the submission day, the window of the daily table and of the status.
C3_CheckCoversWholeDay ==
    [][\A p \in Pages :
         (pc[p] = "query" /\ pc'[p] = "write")
            => ~\E r \in records :
                  /\ r.sector_id = sector[p][1].id
                  /\ r.turno = form[p].turno
                  /\ r.timestamp >= window[p].start
                  /\ r.timestamp <= EndOfDay(window[p].start)]_vars

\* -------------------------------------------------------------- C4 .. C10
\* C4: when deleteSector reports success for a sector, that sector is gone
\* and the store holds no reading that references it.
C4_DeleteLeavesNoReading ==
    [][(delPc = "sector" /\ delPc' = "idle" /\ delToast' = "Setor deletado")
          => /\ ~\E d \in sectorDocs' : d.id = delTarget
             /\ ~\E r \in records' : r.sector_id = delTarget]_vars

InRange(x, lo, hi) == lo <= x /\ x <= hi

\* C5: every stored reading has is_temp_ok true exactly when its stored
\* temperature lies in [temp_min, temp_max] of its sector, and
\* is_humidity_ok true exactly when its stored humidity lies in
\* [humidity_min, humidity_max].
C5_FlagsAgreeWithValues ==
    \A r \in records : \A d \in sectorDocs :
        d.id = r.sector_id
           => /\ r.is_temp_ok <=> InRange(r.temperature, d.temp_min, d.temp_max)
              /\ r.is_humidity_ok <=>
                    InRange(r.humidity, d.humidity_min, d.humidity_max)

\* C6: the range checks are closed intervals: a reading stored with a
\* temperature equal to temp_min or temp_max of the sector the page
\* evaluates against has is_temp_ok true, and one with a humidity equal to
\* humidity_min or humidity_max has is_humidity_ok true.
C6_BoundaryValuesAreOk ==
    [][\A p \in Pages :
         (pc[p] = "write" /\ pc'[p] = "idle")
            => \A r \in records' \ records :
                 /\ r.temperature \in {sector[p][1].temp_min,
                                       sector[p][1].temp_max}
                       => r.is_temp_ok
                 /\ r.humidity \in {sector[p][1].humidity_min,
                                    sector[p][1].humidity_max}
                       => r.is_humidity_ok]_vars

\* C6 witness: a reading typed as temp_max and humidity_min of its sector
\* is stored with both flags true.
C6_BoundaryReadingStored ==
    \E r \in records : \E d \in sectorDocs :
        /\ d.id = r.sector_id
        /\ d.temp_min < d.temp_max
        /\ d.humidity_min < d.humidity_max
        /\ r.temperature = d.temp_max
        /\ r.humidity = d.humidity_min
        /\ r.humidity > 0
        /\ r.is_temp_ok
        /\ r.is_humidity_ok

\* C7: a reading is stored with flags computed against the bounds its
\* sector has in the store at that moment.
C7_FlagsUseCurrentBounds ==
    [][\A r \in records' \ records : \A d \in sectorDocs :
         d.id = r.sector_id
            => /\ r.is_temp_ok <=>
                     InRange(r.temperature, d.temp_min, d.temp_max)
               /\ r.is_humidity_ok <=>
                     InRange(r.humidity, d.humidity_min, d.humidity_max)]_vars

\* C8: a step that changes a sector document (an edit of its bounds or of
\* its name) leaves every stored reading, and so its flags, unchanged.
C8_EditLeavesReadings ==
    [][(\E d \in sectorDocs : \E e \in sectorDocs' : d.id = e.id /\ d # e)
          => records' = records]_vars

\* C8 witness: a sector has been edited and a reading of it keeps a flag
\* that the edited bounds would not give.
C8_EditedSectorKeepsFlag ==
    /\ dashToast = "Setor atualizado"
    /\ dashOp = <<>>
    /\ \E r \in records : \E d \in sectorDocs :
          /\ d.id = r.sector_id
          /\ r.is_temp_ok
          /\ ~InRange(r.temperature, d.temp_min, d.temp_max)

\* C9: the existence query of a submission is issued only for a form with
\* a temperature, a humidity in 0..100 and a shift.
C9_IncompleteFormIsRejected ==
    [][\A p \in Pages :
         (pc[p] = "idle" /\ pc'[p] = "query")
            => /\ form'[p].temperature # <<>>
               /\ form'[p].humidity # <<>>
               /\ InRange(Number(form'[p].humidity), 0, 100)
               /\ form'[p].turno \in Turnos]_vars

BoundsOk(v) ==
    /\ v.temp_max > v.temp_min
    /\ v.humidity_max > v.humidity_min
    /\ InRange(v.humidity_min, 0, 100)
    /\ InRange(v.humidity_max, 0, 100)

\* C10: every stored sector has temp_max > temp_min, humidity_max >
\* humidity_min and both humidity bounds in 0..100, and no write with other
\* values is ever sent to the store.
C10_SectorBoundsInvariant ==
    /\ \A d \in sectorDocs : BoundsOk(d)
    /\ dashOp # <<>> => BoundsOk(dashOp[1].values)

\* C10 witness: after a sector was edited, a submission with
\* temp_max <= temp_min is refused and none is pending.
C10_MalformedRangeRefused ==
    /\ dashErrors = {"temp_max"}
    /\ dashOp = <<>>
    /\ dashToast = "Setor atualizado"
    /\ sectorDocs # {}

\* ------------------------------------------------------------ C11 .. C13
\* The shifts of the readings of sector s stored in the local day of t.
ShiftsOfDay(s, t) ==
    {r.turno : r \in {x \in records :
                        /\ x.sector_id = s
                        /\ x.timestamp >= StartOfDay(t)
                        /\ x.timestamp <= EndOfDay(t)}}

\* Every records listener of sector s that still runs has delivered the
\* current result of its query, and the one registered last still runs.
Delivered(s) ==
    /\ \E sub \in recordSubs :
          /\ sub.sector = s
          /\ sub.state = "live"
          /\ \A x \in recordSubs : x.sector = s => x.n <= sub.n
    /\ \A sub \in recordSubs :
          (sub.sector = s /\ sub.state # "dead")
             => sub.state = "live" /\ sub.seen = SubResult(sub)

\* C11: once the records listener of a sector has delivered its latest
\* snapshot, the sector's status has a shift true exactly when a reading of
\* that sector and shift is stored in today's window.
C11_StatusMatchesToday ==
    \A s \in SectorIds :
        (sectorsStatus[s] # <<>> /\ Delivered(s))
           => sectorsStatus[s][1] = ShiftsOfDay(s, now)

StatusMaps == [SectorIds -> {<<>>} \cup {<<on>> : on \in SUBSET Turnos}]

\* C12: for the documents of every snapshot that was delivered and for
\* every prior status, applying the records handler twice gives the status
\* that applying it once gives.
C12_RecomputeIdempotent ==
    \A sub \in recordSubs :
        sub.state = "live"
           => \A st \in StatusMaps :
                ApplyRecordsSnapshot(
                    ApplyRecordsSnapshot(st, sub.sector, sub.seen),
                    sub.sector, sub.seen)
                  = ApplyRecordsSnapshot(st, sub.sector, sub.seen)

\* C12 witness: a snapshot with the readings of two shifts was delivered
\* and the status of its sector shows exactly those shifts.
C12_TwoShiftsDelivered ==
    \E sub \in recordSubs :
        /\ sub.state = "live"
        /\ \E r1, r2 \in sub.seen : r1.turno # r2.turno
        /\ sectorsStatus[sub.sector] = <<{r.turno : r \in sub.seen}>>

\* C13: a step of a records listener (a delivery or a failure) changes
\* neither the status nor the listeners of any other sector, and a
\* delivery leaves its own sector with exactly the shifts of the documents
\* it delivered, whatever the other listeners did before.
C13_StatusPerSector ==
    [][\A sub \in recordSubs : \A new \in recordSubs' :
         (new.n = sub.n /\ new # sub)
            => /\ \A a \in SectorIds \ {sub.sector} :
                    /\ sectorsStatus'[a] = sectorsStatus[a]
                    /\ \A x \in recordSubs : x.sector = a => x \in recordSubs'
               /\ (new.state = "live" /\ sectorsStatus[sub.sector] # <<>>)
                    => sectorsStatus'[sub.sector]
                          = <<{r.turno : r \in new.seen}>>]_vars

\* C13 witness: the listener of one sector has failed with a reading of
\* that sector stored, and the status of another sector shows a reading
\* its own listener delivered.
C13_OtherSectorStillServed ==
    \E b \in recordSubs : \E a \in recordSubs :
        /\ b.state = "dead"
        /\ \E r \in records : r.sector_id = b.sector
        /\ a.sector # b.sector
        /\ a.state = "live"
        /\ a.seen # {}
        /\ sectorsStatus[a.sector] = <<{r.turno : r \in a.seen}>>

\* ------------------------------------------------------------ C14, C15
\* The local calendar days of the readings the history page holds.
HistoryDays == {FormatYmd(r.timestamp) : r \in Range(histRecords)}

\* The arithmetic mean of the field of the readings of the day, rounded to
\* one decimal place, in tenths.
RoundedMean(day, Field(_)) ==
    LET ofDay == SelectSeq(histRecords,
                           LAMBDA r : FormatYmd(r.timestamp) = day)
        n == Len(ofDay)
        sum == Reduce([i \in 1..n |-> Field(ofDay[i])])
    IN CHOOSE m \in (10 * sum) \div n .. (10 * sum) \div n + 1 :
          /\ 2 * (m * n - 10 * sum) <= n
          /\ 2 * (10 * sum - m * n) < n

TemperatureOf(r) == r.temperature
HumidityOf(r) == r.humidity

\* C14: once the history listener has delivered, chartData has as many
\* points as there are local calendar days with a reading, and for each
\* such day a point dated with that day that carries the means of the
\* day's temperatures and humidities rounded to one decimal place.
C14_OnePointPerDay ==
    histSub = "live"
       => /\ Len(chartData) = Cardinality(HistoryDays)
          /\ \A day \in HistoryDays : \E i \in 1..Len(chartData) :
                /\ chartData[i].date = <<day[3], day[2]>>
                /\ chartData[i].Temperatura = RoundedMean(day, TemperatureOf)
                /\ chartData[i].Umidade = RoundedMean(day, HumidityOf)

\* The calendar day the point i of chartData was built from.
DayOfPoint(i) ==
    CHOOSE day \in HistoryDays :
        FormatDdMm(DateFromYmd(day, tz)) = chartData[i].date

\* C15: chartData is in ascending order of the calendar days of its
\* points.
C15_ChartChronological ==
    histSub = "live"
       => \A i, j \in 1..Len(chartData) :
             i < j => DaysFromCivil(DayOfPoint(i)) < DaysFromCivil(DayOfPoint(j))

\* ------------------------------------------------------------ C16 .. C18
\* A CSV reader.  A field between double quotes may hold commas and line
\* breaks, and a doubled quote in it stands for one quote, so a character
\* is outside quoted fields when an even number of quotes precedes it.
Breaks(text, ch) ==
    {i \in 1..Len(text) :
        /\ text[i] = ch
        /\ Cardinality({k \in 1..(i - 1) : text[k] = "\""}) % 2 = 0}

\* The pieces of text between the characters ch outside quoted fields.
Split(text, ch) ==
    LET b == Breaks(text, ch)
        n == Cardinality(b)
        pos(k) == CHOOSE i \in b : Cardinality({j \in b : j < i}) = k - 1
    IN [k \in 1..(n + 1) |->
           SubSeq(text, IF k = 1 THEN 1 ELSE pos(k - 1) + 1,
                        IF k = n + 1 THEN Len(text) ELSE pos(k) - 1)]

RECURSIVE Undouble(_)
Undouble(text) ==
    IF text = <<>> THEN <<>>
    ELSE IF Head(text) = "\"" /\ Len(text) >= 2 /\ text[2] = "\""
    THEN <<"\"">> \o Undouble(SubSeq(text, 3, Len(text)))
    ELSE <<Head(text)>> \o Undouble(Tail(text))

\* The value of a field: what stands between its quotes when it is quoted.
Unquote(field) ==
    IF Len(field) >= 2 /\ Head(field) = "\"" /\ field[Len(field)] = "\""
    THEN Undouble(SubSeq(field, 2, Len(field) - 1))
    ELSE field

\* The records of text, each the sequence of its fields.
ParseCsv(text) ==
    LET lines == Split(text, "\n") IN
    [i \in 1..Len(lines) |->
        LET fields == Split(lines[i], ",") IN
        [k \in 1..Len(fields) |-> Unquote(fields[k])]]

\* The records of the text exported last, read after the data URI prefix.
ExportedRows == ParseCsv(Tail(csvContent))

\* The instant, in seconds, of the reading the data row i was written for.
SecondsOfRow(i) ==
    LET t == CHOOSE u \in {r.timestamp : r \in Range(csvInput)} :
                 FormatDateTime(u) = ExportedRows[i + 1][1]
    IN t \div 1000

\* C16: the data rows of an export are in ascending order of their
\* timestamps, in whatever order the readings were held.
C16_RowsAscending ==
    csvContent # <<>>
       => \A i, j \in 1..(Len(ExportedRows) - 1) :
             i < j => SecondsOfRow(i) <= SecondsOfRow(j)

\* C16 witness: an export of readings that were held in descending order
\* of their timestamps.
C16_ExportedFromDescending ==
    /\ csvContent # <<>>
    /\ Len(csvInput) >= 2
    /\ \A i \in 1..(Len(csvInput) - 1) :
          csvInput[i].timestamp > csvInput[i + 1].timestamp

\* The seven fields of the row of the reading r, as a reader of the file
\* must find them.
FieldsOf(r) ==
    <<FormatDateTime(r.timestamp), <<r.turno>>,
      NumberToString(r.temperature), BooleanToString(r.is_temp_ok),
      NumberToString(r.humidity), BooleanToString(r.is_humidity_ok),
      r.observation>>

\* C17: the exported text reads as the header followed by one row per
\* reading, each with the seven fields timestamp, shift, temperature,
\* temperature-ok, humidity, humidity-ok, observation; the observation
\* stands between double quotes with its own quotes doubled, so that it
\* reads back as it was stored, the empty one as an empty quoted field.
C17_RowsReadBack ==
    csvContent # <<>>
       => /\ Len(ExportedRows) = 1 + Len(csvInput)
          /\ ExportedRows[1] = CsvHeaders
          /\ \A i \in 1..Len(csvInput) :
                /\ ExportedRows[i + 1] = FieldsOf(dlgRecords[i])
                /\ \E j \in 1..Len(csvInput) : csvInput[j] = dlgRecords[i]
          /\ \A r \in Range(csvInput) :
                /\ r.observation = <<>>
                      => \E k \in 1..(Len(csvContent) - 1) :
                            /\ csvContent[k] = "\""
                            /\ csvContent[k + 1] = "\""
                            /\ k > 1 => csvContent[k - 1] = ","
                /\ r.observation = <<"h", "\"", "i", "\"">>
                      => \E k \in 1..(Len(csvContent) - 7) :
                            SubSeq(csvContent, k, k + 7)
                               = <<"\"", "h", "\"", "\"", "i", "\"", "\"", "\"">>

\* C17 witness: an export of two readings, one observed h"i" and one with
\* no observation.
C17_QuotedAndEmptyExported ==
    /\ csvContent # <<>>
    /\ \E r1, r2 \in Range(csvInput) :
          /\ r1.observation = <<"h", "\"", "i", "\"">>
          /\ r2.observation = <<>>

\* The arrays that hold the readings of q in some order.
Orders(q) ==
    {p \in [1..Len(q) -> Range(q)] : Range(p) = Range(q)}

\* C18: the exported text is the text the export gives for every order in
\* which the same readings can be held.
C18_ExportDeterministic ==
    csvContent # <<>>
       => \A p \in Orders(csvInput) : CsvContent(p) = csvContent

\* ------------------------------------------------------------------- C19
\* Sector form inputs of the notification runs: one valid, one with the
\* minimum above the maximum.
NotifySectorInputs ==
    [name : {"B"},
     temp_min : {<<18>>, <<30>>}, temp_max : {<<25>>},
     humidity_min : {<<40>>}, humidity_max : {<<60>>}]

\* Every mutating action with every answer of the store: readings from one
\* page, the sector form adding sectors and editing the first sector, and
\* deletions of the first sector.
NextNotify ==
    \/ OpenPage(1, 1)
    \/ LoadPage(1, TRUE)
    \/ \E f \in EditInputs : HandleSubmit(1, f)
    \/ \E ok \in BOOLEAN : QueryDone(1, ok)
    \/ \E ok \in BOOLEAN : WriteDone(1, ok)
    \/ SectorsSnapshot
    \/ \E open \in BOOLEAN : HandleFormOpenChange(open)
    \/ HandleEditClick(1)
    \/ \E f \in NotifySectorInputs : SubmitSectorForm(f)
    \/ \E ok \in BOOLEAN : SectorWriteDone(ok)
    \/ DeleteSector(1)
    \/ \E ok \in BOOLEAN : DeleteQueryDone(ok)
    \/ \E rid \in 1..MaxRecords, ok \in BOOLEAN : DeleteRecordDone(rid, ok)
    \/ \E ok \in BOOLEAN : DeleteSectorDone(ok)

SpecNotify == InitWith({DefaultSector}) /\ [][NextNotify]_vars

\* The page p has finished loading without a sector.
NotFound(p) == pc[p] = "idle" /\ sector[p] = <<>>

\* C19: a record page that found no sector offers no form, and no step
\* changes anything of it: it starts no submission, sends nothing to the
\* store, and does not look the sector up again.
C19_NotFoundIsTerminal ==
    [][\A p \in Pages :
         NotFound(p)
            => /\ ~FormShown(p)
               /\ pc'[p] = pc[p]
               /\ sector'[p] = sector[p]
               /\ loading'[p] = loading[p]
               /\ isSubmitting'[p] = isSubmitting[p]
               /\ form'[p] = form[p]
               /\ formErrors'[p] = formErrors[p]
               /\ window'[p] = window[p]
               /\ toast'[p] = toast[p]]_vars

\* C19 witness: a page opened on the id of a sector that was deleted shows
\* not-found while a reading was stored from another page.
C19_DeletedSectorNotFound ==
    \E p \in Pages :
        /\ NotFound(p)
        /\ toast[p] = "Setor nao encontrado"
        /\ sectorId[p] = 1
        /\ delToast = "Setor deletado"
        /\ \E q \in Pages : q # p /\ toast[q] = "Sucesso"

\* The step answers the last request of the submission of page p.
SubmissionEnds(p) == pc[p] \in {"query", "write"} /\ pc'[p] = "idle"

\* The step answers the write of the sector form.
SectorFormEnds == dashOp # <<>> /\ dashOp' = <<>>

\* The step ends deleteSector: its try block completes or throws.
DeletionEnds == delPc # "idle" /\ delPc' = "idle"

\* C20: create sector, update sector, delete sector and submit reading each
\* end with exactly one notification (none while the action runs, one when
\* it ends, no further one later), a success notification exactly when
\* the action's writes were carried out and a failure or rejection
\* notification with the written document left alone otherwise, and the
\* submitting flag is set while the action runs and false when it ends.
C20_OneNotificationPerAction ==
    [][/\ \A p \in Pages :
            /\ submitToasts'[p] <= 1
            /\ pc'[p] \in {"query", "write"}
                  => submitToasts'[p] = 0 /\ isSubmitting'[p]
            /\ SubmissionEnds(p)
                  => /\ submitToasts'[p] = 1
                     /\ ~isSubmitting'[p]
                     /\ toast'[p] \in {"Sucesso", "Registro Duplicado",
                                       "Falha no Envio"}
                     /\ toast'[p] = "Sucesso"
                           <=> pc[p] = "write" /\ records' # records
                     /\ toast'[p] # "Sucesso" => records' = records
       /\ dashToasts' <= 1
       /\ dashOp' # <<>> => dashToasts' = 0 /\ dashSubmitting'
       /\ SectorFormEnds
             => /\ dashToasts' = 1
                /\ ~dashSubmitting'
                /\ dashToast' \in {"Setor adicionado", "Setor atualizado",
                                   "Erro"}
                /\ dashToast' = "Setor adicionado"
                      => /\ dashOp[1].kind = "add"
                         /\ nextSectorId' = nextSectorId + 1
                         /\ SectorDoc(nextSectorId, dashOp[1].values)
                               \in sectorDocs'
                /\ dashToast' = "Setor atualizado"
                      => /\ dashOp[1].kind = "update"
                         /\ SectorDoc(dashOp[1].id, dashOp[1].values)
                               \in sectorDocs'
                /\ dashToast' = "Erro"
                      => sectorDocs' = sectorDocs
                            /\ nextSectorId' = nextSectorId
       /\ delToasts' <= 1
       /\ delPc' # "idle" => delToasts' = 0
       /\ DeletionEnds
             => /\ delToasts' = 1
                /\ delToast' \in {"Setor deletado", "Erro ao deletar setor"}
                /\ delToast' = "Setor deletado"
                      => /\ delPc = "sector"
                         /\ delAwait = {}
                         /\ ~\E d \in sectorDocs' : d.id = delTarget
                /\ delToast' = "Erro ao deletar setor"
                      => sectorDocs' = sectorDocs]_vars

\* C20 witness: with a reading stored, a second submission was rejected as
\* a duplicate, a sector write failed and a deletion failed on one of its
\* readings, each with its one notification and no flag left set.
C20_EveryPathNotified ==
    /\ records # {}
    /\ toast[1] = "Registro Duplicado" /\ submitToasts[1] = 1
    /\ ~isSubmitting[1]
    /\ dashToast = "Erro" /\ dashToasts = 1 /\ ~dashSubmitting
    /\ delToast = "Erro ao deletar setor" /\ delToasts = 1
    /\ delPc = "idle"

\* ------------------------------------------------------------ C21 .. C23
\* Readings of the default sector submitted from one record page within
\* one day while a second page shows its daily table, the dashboard shows
\* its status and the records dialog is opened and closed on it; every
\* listener that has something to deliver eventually delivers.
NextLive ==
    \/ \E p \in {1, 2} : OpenPage(p, 1)
    \/ \E p \in {1, 2} : LoadPage(p, TRUE)
    \/ \E f \in StatusInputs : HandleSubmit(1, f)
    \/ QueryDone(1, TRUE)
    \/ WriteDone(1, TRUE)
    \/ \E p \in {1, 2} : DailySnapshot(p)
    \/ HandleViewRecords(1)
    \/ CloseRecordsDialog
    \/ DialogSnapshot
    \/ RecordsSnapshot(1)

SpecLive ==
    /\ InitWith({DefaultSector})
    /\ [][NextLive]_vars
    /\ \A p \in {1, 2} : WF_vars(DailySnapshot(p))
    /\ WF_vars(DialogSnapshot)
    /\ WF_vars(RecordsSnapshot(1))

\* The reading r is shown by every open subscriber whose query matches it:
\* the daily table of each record page still displayed, the records
\* dialog, and the dashboard status of its sector.
Reflected(r) ==
    /\ \A p \in Pages :
          (/\ pc[p] # "left"
           /\ dailySub[p] # <<>>
           /\ dailySub[p][1].state # "dead"
           /\ r \in DailyResult(p))
             => r \in Range(dailyRecords[p])
    /\ (/\ dlgSub # <<>>
        /\ dlgSub[1].state # "dead"
        /\ r \in DialogResult)
          => r \in Range(dlgRecords)
    /\ (/\ user
        /\ sectorsStatus[r.sector_id] # <<>>
        /\ \E sub \in recordSubs : sub.state # "dead" /\ r \in SubResult(sub))
          => r.turno \in sectorsStatus[r.sector_id][1]

\* C21: a reading that was stored is eventually shown by every open
\* subscriber of its sector and day (the daily table of the record pages,
\* the records dialog, the dashboard status), with no user action needed,
\* when deliveries are fair and the day does not change.
C21_StoredReadingShown ==
    \A rid \in 1..MaxRecords :
        (\E r \in records : r.id = rid)
           ~> (\A r \in records : r.id = rid => Reflected(r))

\* C21 witness: a reading stored from one page is in the daily table of
\* the other page and in the open dialog, and its shift is done in the
\* status.
C21_ShownEverywhere ==
    \E r \in records : \E p \in Pages :
        /\ sector[p] # <<>>
        /\ toast[p] # "Sucesso"
        /\ r \in Range(dailyRecords[p])
        /\ dlgOpen /\ r \in Range(dlgRecords)
        /\ r.turno \in sectorsStatus[1][1]

\* C22: whenever a records listener of the dashboard applies a snapshot
\* to the status, the window of its query is the local day that contains
\* the moment of the delivery.
C22_WindowIsDayOfDelivery ==
    [][\A sub \in recordSubs : \A new \in recordSubs' :
         (new.n = sub.n /\ new # sub /\ new.state = "live")
            => /\ new.start = StartOfDay(now)
               /\ new.end = EndOfDay(now)]_vars

\* The views and their listeners over two sectors on the second day: the
\* first sector has a reading of 08:00 of each day.  One record page, the
\* records dialog with its calendar and export, the history page over the
\* last week, the dashboard status, and sign-out.
ViewReadings ==
    {CsvReading(1, 8 * HourMs, <<>>), CsvReading(2, DayMs + 8 * HourMs, <<>>)}

InitViews ==
    /\ InitState({DefaultSector, SecondSector}, ViewReadings,
                 DayMs + 12 * HourMs, 0 - 3)
    /\ DialogClosed

NextViews ==
    \/ OpenPage(1, 1)
    \/ LoadPage(1, TRUE)
    \/ DailySnapshot(1)
    \/ DailyError(1)
    \/ LeavePage(1)
    \/ \E sid \in SectorIds : HandleViewRecords(sid)
    \/ CloseRecordsDialog
    \/ \E date \in {<<>>} \cup {<<d>> : d \in 0..MaxDay} : SetDate(date)
    \/ DialogSnapshot
    \/ DialogError
    \/ ExportToCsv
    \/ \E sid \in SectorIds : SelectSector(sid)
    \/ HistorySnapshot
    \/ HistoryError
    \/ \E n \in 1..(nextSub - 1) : RecordsSnapshot(n)
    \/ SignOut

SpecViews == InitViews /\ [][NextViews]_vars

\* C23: a listener that still runs belongs to a view that is displayed
\* and was registered for the view's current parameters: the dialog's
\* for the open dialog's sector and date, the history page's for a
\* selected sector of a signed-in user, a record page's for a page that
\* was not left, the dashboard's for a mounted dashboard.
C23_ListenersReleased ==
    /\ (dlgSub # <<>> /\ dlgSub[1].state # "dead")
          => /\ dlgOpen
             /\ dlgSector = <<dlgSub[1].sector>>
             /\ dlgDate = <<dlgSub[1].day>>
    /\ histSub \in {"new", "live"} => user /\ selectedSector # <<>>
    /\ \A p \in Pages :
          pc[p] = "left" => dailySub[p] = <<>> \/ dailySub[p][1].state = "dead"
    /\ ~user => /\ sectorsSub = "released"
                /\ \A sub \in recordSubs : sub.state = "dead"

\* ------------------------------------------------------------ C24 .. C26
\* C24: the records listeners of the dashboard that still run are never
\* more than the sectors the dashboard lists.
C24_ListenersBoundedBySectors ==
    Cardinality({sub \in recordSubs : sub.state # "dead"})
        <= Cardinality(sectors)

\* The readings the records dialog renders: none behind the placeholder.
DialogShown == IF dlgLoading THEN {} ELSE Range(dlgRecords)

\* The readings the chart of the history page is drawn from.
HistoryShown ==
    IF loadingRecords \/ selectedSector = <<>> THEN {} ELSE Range(histRecords)

\* C25: once the listener of the records dialog or of the history page
\* has failed, every reading the view shows is of the sector and the day
\* (the dialog) or the sector and the period (the history page) that are
\* selected now.
C25_FailedViewShowsNothingStale ==
    /\ (dlgSub # <<>> /\ dlgSub[1].state = "dead")
          => \A r \in DialogShown :
                /\ r.sector_id = dlgSector[1]
                /\ dlgDate = <<r.timestamp \div DayMs>>
    /\ histSub = "dead"
          => \A r \in HistoryShown :
                /\ r.sector_id = selectedSector[1]
                /\ r.timestamp >= histStart

\* C26: with the administrator signed out the dashboard holds no sector,
\* no status entry, and neither its sectors listener nor any of its
\* records listeners still runs.
C26_SignedOutHoldsNothing ==
    ~user
       => /\ sectors = {}
          /\ \A s \in SectorIds : sectorsStatus[s] = <<>>
          /\ sectorsSub = "released"
          /\ ~\E sub \in recordSubs : sub.state \in {"new", "live"}

\* ------------------------------------------------------------ C27 .. C30
\* C27: every stored reading references a sector document that is in the
\* store.
C27_ReadingsReferenceSectors ==
    \A r \in records : \E d \in sectorDocs : d.id = r.sector_id

\* C28: the rows of every export are readings of the sector the dialog is
\* open on, taken on the day selected in it when the export is made.
C28_ExportOfSelectedDay ==
    [][(csvInput' # csvInput \/ csvContent' # csvContent)
          => \A r \in Range(csvInput') :
                /\ r.sector_id = dlgSector[1]
                /\ dlgDate = <<r.timestamp \div DayMs>>]_vars

\* C29: a closed sector form has no sector being edited; while the form
\* stays open the sector being edited does not change; a submission is an
\* update exactly when a sector is being edited; and an add leaves every
\* existing sector document as it was.  So a form opened from the closed
\* state by the add button submits an add.
C29_ClosedFormEditsNothing ==
    [][/\ ~isFormOpen' => editingSector' = <<>>
       /\ (isFormOpen /\ isFormOpen') => editingSector' = editingSector
       /\ (dashOp = <<>> /\ dashOp' # <<>>)
             => (dashOp'[1].kind = "add" <=> editingSector = <<>>)
       /\ (dashOp # <<>> /\ dashOp' = <<>> /\ dashOp[1].kind = "add")
             => \A d \in sectorDocs : d \in sectorDocs']_vars

\* C29 witness: with a sector in the list and an earlier submission
\* answered, the form was opened again without a sector being edited and
\* its submission is an add.
C29_AddAfterEarlierSubmit ==
    /\ sectors # {}
    /\ sectorWrites > 1
    /\ isFormOpen
    /\ editingSector = <<>>
    /\ dashOp # <<>> /\ dashOp[1].kind = "add"

\* C30: the sector document is deleted only from the last step of
\* deleteSector, which is reached with every reading its lookup found
\* gone from the store; a deleteSector that ends on a failed lookup or a
\* failed delete of a reading shows the failure notification and leaves
\* the sector documents as they were; and a reading that was deleted is
\* not stored again (a new reading has a new id).
C30_SectorDeletedLast ==
    [][/\ sectorDocs' # sectorDocs
             => /\ delPc = "sector"
                /\ delToast' = "Setor deletado"
       /\ delPc' = "sector"
             => ~\E r \in records' : r.id \in delFound'
       /\ (delPc \in {"query", "records"} /\ delPc' = "idle")
             => /\ delToast' = "Erro ao deletar setor"
                /\ sectorDocs' = sectorDocs
       /\ \A r \in records' : r \in records \/ r.id = nextRecordId]_vars

\* C30 witness: a deleteSector that found two readings has deleted one,
\* failed on the other and ended with the failure notification, the
\* sector document still being stored.
C30_PartialDeleteKeepsSector ==
    /\ delPc = "idle"
    /\ delToast = "Erro ao deletar setor"
    /\ Cardinality(delFound) = 2
    /\ Cardinality({r \in records : r.id \in delFound}) = 1
    /\ \E d \in sectorDocs : d.id = delTarget

====
